---- MODULE Spec2Model ----
(***************************************************************************)
(* A model of bbdl: the response decoder (_parse), the transport poller    *)
(* (Request.send) and the options validation (BbdlOptions.__post_init__).  *)
(***************************************************************************)
EXTENDS Naturals, Integers, Sequences, FiniteSets, TLC

VARIABLES
  \* _parse (request.py 313-404)
  pc,          \* position in _parse: "header", "data", "reshape", "done", "raised"
  exc,         \* the exception _parse ended with, "none" while there is none
  eof,         \* the input has been read to its end (readline now returns '')
  is_history,  \* request.py 319
  infields,    \* request.py 320
  fields,      \* request.py 321
  indata,      \* request.py 339
  data,        \* res.data
  errors,      \* res.errors
  columns,     \* res._columns
  msg,         \* the message of the exception
  last,        \* the line the last readline() returned, as its tokens (<<>> before the first)
  lines        \* the lines read inside the data block so far, each as its flds

parseVars == <<pc, exc, msg, eof, is_history, infields, fields, indata, data, errors, columns,
               last, lines>>

VARIABLES
  \* Request.send (request.py 256-282)
  s_pc,        \* position in send: "delete", "put", "loop", "list", "get", "unzip",
               \* "done", "timeout", "failed", and "idle" when no send runs
  poll_i,           \* request.py 270: the loop index
  sendopt,     \* the options send reads: wait_time, compressed, begdate, enddate
  remote,      \* the names of the files on the remote side
  local,       \* the names of the response files on the local side
  ops,         \* the transport calls and sleeps send has made, in order
  cancelled,   \* the caller of send has asked for the wait to be given up
  at_put       \* the names the remote side held when putascii was called (request.py 268)

sendVars == <<s_pc, poll_i, sendopt, remote, local, ops, cancelled, at_put>>

VARIABLES
  \* BbdlOptions (options.py 22-55)
  o_pc,        \* "new" before __post_init__, then "ok" or "raised"; "idle" when unused
  o_args,      \* the arguments of the constructor
  options,     \* the fields of the object
  o_exc        \* the exception and its message, <<>> while there is none

optVars == <<o_pc, o_args, options, o_exc>>

VARIABLES
  \* Request.build (request.py 177-254)
  b_pc,          \* position in build: "start", "open", "fields", "data", "done", "raised",
                 \* and "idle" when no build runs
  b_entry,       \* the options as the caller passed them
  b_options,     \* the options object, which build may assign to
  b_headers,     \* request.py 187: the local list headers
  b_fields,      \* the argument fields
  b_identifiers, \* the argument identifiers, as far as the loop has read it
  b_file,        \* the lines written to reqfile, in order
  b_exc          \* the exception build ended with and what it cites, <<>> while there is none

buildVars == <<b_pc, b_entry, b_options, b_headers, b_fields, b_identifiers, b_file, b_exc>>

VARIABLES
  \* Result (request.py 84-115) in the loop of client.py 140-150
  r_pc,          \* "parse" while a response is decoded into r_other, "idle" when unused
  r_self,        \* the Result that accumulates: data, errors, _columns
  r_other,       \* the Result of the response being decoded
  r_before,      \* r_self and r_other as they were before the last extend
  r_log          \* the mnemonics recorded into r_self and into r_other, in order

resVars == <<r_pc, r_self, r_other, r_before, r_log>>

VARIABLES
  \* SFTPClient.request (client.py 100-150)
  c_pc,          \* position in request: "start", "build", "send", "parse", "returned",
                 \* "raised", and "idle" when no request runs
  c_args,        \* the arguments of the call: sids and the number of fields
  c_part,        \* client.py 141: the loop variable part
  c_log,         \* what request has done so far, each entry an operation and its part
  c_exc,         \* the exception request ended with, "none" while there is none
  c_chunks,      \* client.py 146: the slices fields[i:i+500] passed to build, in order
  c_result       \* client.py 140, 149: the rows of result, each the sid and the part it is of

clientVars == <<c_pc, c_args, c_part, c_log, c_exc, c_chunks, c_result>>

VARIABLES
  \* SFTPClient._fetch_by_date (client.py 152-170)
  f_pc,          \* position: "list", "loop", "returned", "raised", and "idle" when unused
  f_target,      \* the argument target_date
  f_remote,      \* the files of the remote side, in the order files() lists them
  f_i,           \* the place of the loop in the listing
  f_log,         \* the transport calls made, in order
  f_out          \* what the call ended with: the file whose Result it returned, or the exception

fetchVars == <<f_pc, f_target, f_remote, f_i, f_log, f_out>>

VARIABLES
  \* one call of a function of parser.py or of a method of Result
  p_pc,          \* "call" before the call, "done" after it, "idle" when unused
  p_in,          \* the argument
  p_out          \* what the call returned or raised

callVars == <<p_pc, p_in, p_out>>

vars == <<parseVars, sendVars, optVars, buildVars, resVars, clientVars, fetchVars, callVars>>

\* ------------------------------------------------------------------ bounds
MaxFields == 2
MaxRows == 3
MaxWait == 2
MaxIdens == 2
MaxParts == 2
MaxElems == 2
MaxPairs == 3

\* ------------------------------------------------------------------ values

\* A decoded value: k is its kind ("none", "str", "num", "date", "list"),
\* s the text of a scalar, l the elements of a list.
Val(k, s, l) == [k |-> k, s |-> s, l |-> l]
None == Val("none", "", <<>>)
Str(s) == Val("str", s, <<>>)
Num(s) == Val("num", s, <<>>)
DateV(s) == Val("date", s, <<>>)
List(l) == Val("list", "", l)

Ok(v) == [ok |-> TRUE, v |-> v]
Raise == [ok |-> FALSE, v |-> None]

Range(s) == {s[i] : i \in 1..Len(s)}
Min(a, b) == IF a < b THEN a ELSE b

\* unique leaving the list as it is
unique_KeepsAll(s) == s

\* libb.unique: the list without the repetitions of an element, the first of each kept
RECURSIVE unique(_)
unique(s) ==
  IF s = <<>> THEN <<>>
  ELSE LET r == unique(SubSeq(s, 1, Len(s) - 1))
           x == s[Len(s)]
       IN IF x \in Range(r) THEN r ELSE Append(r, x)

\* ------------------------------------------------------------------ request.py constants
\* RC_OK with the code of a rejected identifier in its place
RC_OK_Ten == "10"
RC_OK == "0"
HISTORY_PROGRAM == "PROGRAMNAME=gethistory"
STATUS_FIELDS == <<"IDENTIFIER", "RETCODE", "NFIELDS">>

ERROR_MESSAGE ==
  ("-14" :> "Field is not recognized or supported by the gethistory program.") @@
  ("-13" :> "Field, security, and date range combination is not applicable.") @@
  ("-12" :> "Field is not available.") @@
  ("-10" :> "Start date > End date.") @@
  ("9" :> "Asset class not supported for BVAL Tier1 pricing.") @@
  ("10" :> "Bloomberg cannot find the security as specified.") @@
  ("11" :> "Restricted Security.") @@
  ("123" :> "User not authorized for private loan (PRPL).") @@
  ("605" :> "Invalid macro value.") @@
  ("988" :> "System Error on security level.") @@
  ("989" :> "Unrecognized pricing source.") @@
  ("990" :> "System Error. Contact Product Support and Technical Assistance.") @@
  ("991" :> "Invalid override value (e.g., bad date or number) or Maximum number of overrides (20) exceeded.") @@
  ("992" :> "Unknown override field.") @@
  ("993" :> "Maximum number of overrides exceeded") @@
  ("994" :> "Permission denied.") @@
  ("995" :> "Maximum number of fields exceeded.") @@
  ("996" :> "Maximum number of data points exceeded (some data for this security is missing).") @@
  ("997" :> "General override error (e.g., formatting error).") @@
  ("998" :> "Security identifier type (e.g., CUSIP) is not recognized.") @@
  ("999" :> "Unloadable security")

\* ------------------------------------------------------------------ parser.py: value codec
NULL_VALUES == {"", "N.A.", "N.D.", "N.S.", "NaN", "None", "UNSPEC", "BEFORE MKT", "AFTER MKT"}

BULK_FIELD_KEYS == {"CALL_SCHEDULE", "PUT_SCHEDULE", "SOFT_CALL_SCHEDULE",
                    "SOFT_CALL_SCHEDULE_EXTENDED", "DDIS_AMT_OUTSTANDING_BY_YR_BNDLN",
                    "ISSUE_UNDERWRITER", "CONVERSION_RESET_SCHEDULE",
                    "REDEMPTION_UNDERLYING", "REDEMPTION_UNDERLYING_DATA"}

\* str.strip() and str.upper() on the tokens of the model's alphabet
Strip(s) ==
  CASE s = "B " -> "B" [] s = "PX_LAST " -> "PX_LAST"
    [] s = "  N.A.  " -> "N.A." [] s = " n.a. " -> "n.a." [] s = "  " -> "" [] OTHER -> s
Upper(s) == CASE s = "dvd_hist" -> "DVD_HIST" [] OTHER -> s

\* The tokens libb.parse_number reads as a number, and those Date.parse reads as a date.
NumberTokens == {"0", "1", "10", "77", "145.50", "145.5", "20251215", "20251216"}
DateTokens == {"20251215", "20251216"}

\* The field catalog: mnemonic -> 'Field Type'
all_fields == ("PX_LAST" :> "Price") @@ ("DVD_HIST" :> "Bulk Format")

_is_null(value) == value = "" \/ Strip(value) \in NULL_VALUES

\* parser.py 20-33 on a value of any kind: None, a string, a number or a list of values
RECURSIVE _is_null_value(_)
_is_null_value(v) ==
  CASE v.k = "none" -> TRUE
    [] v.k = "list" -> v.l = <<>> \/ \A i \in 1..Len(v.l) : _is_null_value(v.l[i])
    [] v.k = "str" -> _is_null(v.s)
    [] OTHER -> FALSE

_to_str(value) == IF _is_null(value) THEN None ELSE Str(Strip(value))

_to_number(value) ==
  IF _is_null(value) THEN None
  ELSE IF value \in NumberTokens THEN Num(value) ELSE None

to_date(x) ==
  IF _is_null(x) THEN Ok(None)
  ELSE IF x \in DateTokens THEN Ok(DateV(x)) ELSE Raise

to_datetime(x) ==
  IF _is_null(x) THEN Ok(None)
  ELSE IF x \in DateTokens THEN Ok(Val("datetime", x, <<>>)) ELSE Raise

to_time(x) == IF _is_null(x) THEN Ok(None) ELSE Raise

_to_bool(value) ==
  LET v == _to_str(value)
  IN Val("bool", IF v.k = "str" /\ v.s \in {"1", "T", "Y"} THEN "True" ELSE "False", <<>>)

\* Field._to_list on the bulk tokens of the alphabet
_to_list(s) ==
  IF _is_null(s) THEN None
  ELSE CASE Strip(s) = ";1;1;1;x;" -> List(<<Str("x")>>)
         [] Strip(s) = ";1;2;1;x;1;y;" -> List(<<Str("x"), Str("y")>>)
         [] OTHER -> None

_bulk_to_dicts(field, value) ==
  LET items == _to_list(value)
  IN IF items.k # "list" \/ items.l = <<>> THEN None
     ELSE List([i \in 1..Len(items.l) |-> Val("dict", field, <<items.l[i]>>)])

_base_convertrs == {"IDENTIFIER", "RETCODE", "NFIELDS", "DATE",
                    "CNTRY_OF_DOMICILE", "COUNTRY_ISO", "CPN"}

_to_country_code(value) ==
  IF _is_null(value) THEN None
  ELSE IF value \in {"US", "GB"} THEN Str(value) ELSE None

TypeOfFtype(ftype) ==
  CASE ftype = "Boolean" -> Ok("bool")
    [] ftype = "Bulk Format" -> Ok("list")
    [] ftype = "Character" -> Ok("str")
    [] ftype = "Date" -> Ok("Date")
    [] ftype = "Date or Time" -> Ok("DateTime")
    [] ftype = "Integer" -> Ok("int")
    [] ftype = "Integer/Real" -> Ok("float")
    [] ftype = "Long Character" -> Ok("str")
    [] ftype = "Month/Year" -> Ok("Date")
    [] ftype = "Price" -> Ok("float")
    [] ftype = "Real" -> Ok("float")
    [] ftype = "Time" -> Ok("Time")
    [] OTHER -> [ok |-> FALSE, v |-> "object"]

to_type(field) ==
  IF Upper(field) \notin DOMAIN all_fields THEN Ok("object")
  ELSE TypeOfFtype(all_fields[Upper(field)])

to_python(field, value, use_custom_mappings) ==
  IF field \in _base_convertrs THEN
     CASE field = "IDENTIFIER" -> Ok(_to_str(value))
       [] field \in {"RETCODE", "NFIELDS", "CPN"} -> Ok(_to_number(value))
       [] field = "DATE" -> to_date(value)
       [] OTHER -> Ok(_to_country_code(value))
  ELSE IF use_custom_mappings /\ field \in BULK_FIELD_KEYS THEN Ok(_bulk_to_dicts(field, value))
  ELSE IF Upper(field) \notin DOMAIN all_fields THEN Raise
  ELSE LET ftype == all_fields[Upper(field)]
       IN CASE ftype = "Bulk Format" -> Ok(_to_list(value))
            [] ftype \in {"Integer", "Integer/Real", "Price", "Real"} -> Ok(_to_number(value))
            [] ftype \in {"Character", "Long Character"} -> Ok(_to_str(value))
            [] ftype = "Boolean" -> Ok(_to_bool(value))
            [] ftype \in {"Date", "Month/Year"} -> to_date(value)
            [] ftype = "Date or Time" -> to_datetime(value)
            [] ftype = "Time" -> to_time(value)
            [] OTHER -> Raise

\* ------------------------------------------------------------------ request.py: _parse

\* What the environment can put on a line of the header part: the stripped line.
HeaderLines == {HISTORY_PROGRAM, "START-OF-FIELDS", "END-OF-FIELDS",
                "PX_LAST", "dvd_hist", "BOGUS"}

\* What it can put on a line of the data part: line.strip().split('|'), so the last
\* token is what follows the last delimiter.
DataLines == {
  <<"START-OF-DATA">>,
  <<"END-OF-DATA">>,
  <<"A", "0", "1", "20251215", "145.50", "">>,
  <<"A", "0", "1", "20251216", "N.A.", "">>,
  <<"B ", "0", "1", "bad", ";1;1;1;x;", "abc", "">>,
  <<"A", "0", "">>,
  <<"B", "10", "0", "">>,
  <<"A", "">>,
  <<"">> }

\* readline() at the end of the input returns '', as a blank line does
EndOfInput == "<end of input>"

\* dict(zip(cols, flds)): keys in the order of their first occurrence, each with the
\* converted value of its last occurrence
Row(keys, val) == [keys |-> keys, val |-> val]

LastIndex(cols, n, k) == CHOOSE i \in 1..n : cols[i] = k /\ \A j \in (i + 1)..n : cols[j] # k

\* Convert leaving the raw token in place of a value that failed to convert
ConvertKeepsRaw(fld, raw, use_custom_mappings) ==
  LET r == to_python(fld, raw, use_custom_mappings) IN IF r.ok THEN r.v ELSE Str(raw)

Convert(fld, raw, use_custom_mappings) ==
  LET r == to_python(fld, raw, use_custom_mappings) IN IF r.ok THEN r.v ELSE None

\* request.py 360-366: the row of a line with RETCODE 0
DataRow(cols, flds, use_custom_mappings) ==
  LET n == Min(Len(cols), Len(flds))
      keys == unique(SubSeq(cols, 1, n))
  IN Row(keys, [k \in Range(keys) |-> Convert(k, flds[LastIndex(cols, n, k)], use_custom_mappings)])

\* request.py 373-378: the entry of a line with another RETCODE
ErrorRow(status_fields, flds) ==
  LET n == Min(Len(status_fields), Len(flds))
      keys == Append(SubSeq(status_fields, 1, n), "RETMSG")
  IN Row(keys, [k \in Range(keys) |->
                  IF k = "RETMSG"
                  THEN (IF flds[2] \in DOMAIN ERROR_MESSAGE THEN Str(ERROR_MESSAGE[flds[2]]) ELSE None)
                  ELSE Str(flds[LastIndex(status_fields, n, k)])])

\* request.py 367-370: res.columns.append((fld, type)) for every key of the row; reading
\* res.columns (request.py 100-103) first removes the duplicates
RECURSIVE AddColumns(_, _)
AddColumns(cols, keys) ==
  IF keys = <<>> THEN cols
  ELSE LET t == to_type(keys[1])
       IN AddColumns(Append(unique(cols), <<keys[1], IF t.ok THEN t.v ELSE "object">>), Tail(keys))

StatusFields(hist) == IF hist THEN Append(STATUS_FIELDS, "DATE") ELSE STATUS_FIELDS

IndexOf(s, x) == IF x \in Range(s) THEN CHOOSE i \in 1..Len(s) : s[i] = x ELSE 0

\* WrapRow taking DATE for a status field
WrapRowDateScalar(row) ==
  Row(row.keys, [k \in Range(row.keys) |->
                   IF k \in Range(STATUS_FIELDS) \cup {"DATE"} THEN row.val[k]
                   ELSE List(<<row.val[k]>>)])

\* request.py 391-396: the first row of an identifier
WrapRow(row) ==
  Row(row.keys, [k \in Range(row.keys) |->
                   IF k \in Range(STATUS_FIELDS) THEN row.val[k] ELSE List(<<row.val[k]>>)])

\* AppendRow putting the new value in front of the sequence
AppendRowInFront(entry, row) ==
  Row(entry.keys, [k \in Range(entry.keys) |->
                     IF k \in Range(row.keys) /\ k \notin Range(STATUS_FIELDS)
                     THEN List(<<row.val[k]>> \o entry.val[k].l)
                     ELSE entry.val[k]])

\* request.py 398-400: a later row of the identifier
AppendRow(entry, row) ==
  Row(entry.keys, [k \in Range(entry.keys) |->
                     IF k \in Range(row.keys) /\ k \notin Range(STATUS_FIELDS)
                     THEN List(Append(entry.val[k].l, row.val[k]))
                     ELSE entry.val[k]])

\* request.py 385-402: ok is FALSE when datamap[...][key] raises KeyError
RECURSIVE Reshape(_, _)
Reshape(rows, acc) ==
  IF rows = <<>> \/ ~acc.ok THEN acc
  ELSE LET row == rows[1]
           pos == IndexOf(acc.tickers, row.val["IDENTIFIER"])
       IN IF pos = 0
          THEN Reshape(Tail(rows), [ok |-> TRUE,
                                    tickers |-> Append(acc.tickers, row.val["IDENTIFIER"]),
                                    rows |-> Append(acc.rows, WrapRow(row))])
          ELSE IF \E k \in Range(row.keys) :
                     k \notin Range(STATUS_FIELDS) /\ k \notin Range(acc.rows[pos].keys)
          THEN [acc EXCEPT !.ok = FALSE]
          ELSE Reshape(Tail(rows), [acc EXCEPT !.rows[pos] = AppendRow(acc.rows[pos], row)])

\* python's None among strings
NoneS == "<None>"
Truthy(x) == x \notin {NoneS, ""}

ParseIdle ==
  /\ pc = "idle" /\ exc = "none" /\ msg = "" /\ eof = FALSE
  /\ is_history = FALSE /\ infields = FALSE /\ fields = <<>> /\ indata = FALSE
  /\ data = <<>> /\ errors = <<>> /\ columns = <<>> /\ last = <<>> /\ lines = <<>>

SendIdle ==
  /\ s_pc = "idle" /\ poll_i = 0 /\ sendopt = <<>> /\ remote = {} /\ local = {} /\ ops = <<>>
  /\ cancelled = FALSE /\ at_put = {}

OptIdle ==
  /\ o_pc = "idle" /\ o_args = <<>> /\ options = <<>> /\ o_exc = <<>>

BuildIdle ==
  /\ b_pc = "idle" /\ b_entry = <<>> /\ b_options = <<>> /\ b_headers = <<>>
  /\ b_fields = <<>> /\ b_identifiers = <<>> /\ b_file = <<>> /\ b_exc = <<>>

ResIdle ==
  /\ r_pc = "idle" /\ r_self = <<>> /\ r_other = <<>> /\ r_before = <<>> /\ r_log = <<>>

ClientIdle ==
  /\ c_pc = "idle" /\ c_args = <<>> /\ c_part = 0 /\ c_log = <<>> /\ c_exc = "none"
  /\ c_chunks = <<>> /\ c_result = <<>>

FetchIdle ==
  /\ f_pc = "idle" /\ f_target = "" /\ f_remote = <<>> /\ f_i = 0 /\ f_log = <<>> /\ f_out = <<>>

CallIdle ==
  /\ p_pc = "idle" /\ p_in = <<>> /\ p_out = <<>>

InitParse ==
  /\ SendIdle /\ OptIdle /\ BuildIdle /\ ResIdle /\ ClientIdle /\ FetchIdle /\ CallIdle
  /\ pc = "header" /\ exc = "none" /\ msg = "" /\ eof = FALSE
  /\ is_history = FALSE /\ infields = FALSE /\ fields = <<>> /\ indata = FALSE
  /\ data = <<>> /\ errors = <<>> /\ columns = <<>> /\ last = <<>> /\ lines = <<>>

\* RaiseExc raising ValueError whatever the exception asked for
RaiseExcValueError(e, m) ==
  /\ pc' = "raised" /\ exc' = "ValueError" /\ msg' = m
  /\ UNCHANGED <<is_history, infields, fields, indata, data, errors, columns>>

RaiseExc(e, m) ==
  /\ pc' = "raised" /\ exc' = e /\ msg' = m
  /\ UNCHANGED <<is_history, infields, fields, indata, data, errors, columns>>

\* NeedsReshape reshaping every response
NeedsReshapeAlways(hist) == TRUE

\* request.py 385: whether the rows are reshaped
NeedsReshape(hist) == hist

\* request.py 322-337: one turn of the loop that reads the field names
ScanHeader ==
  /\ pc = "header"
  /\ UNCHANGED <<sendVars, optVars, buildVars, resVars, clientVars, fetchVars, callVars>>
  /\ \E inp \in HeaderLines \cup {EndOfInput} :
       /\ eof => inp = EndOfInput
       /\ eof' = (inp = EndOfInput)
       /\ last' = <<inp>>
       /\ UNCHANGED lines
       /\ LET line == IF inp = EndOfInput THEN "" ELSE inp
          IN IF line = "START-OF-FIELDS"
             THEN IF infields
                  THEN RaiseExc("BbdlParseError", "Unexpected START-OF-FIELDS: already parsing fields")
                  ELSE /\ infields' = TRUE
                       /\ UNCHANGED <<pc, exc, msg, is_history, fields, indata, data, errors, columns>>
             ELSE IF line = "END-OF-FIELDS"
             THEN IF ~infields
                  THEN RaiseExc("BbdlParseError", "Unexpected END-OF-FIELDS: not parsing fields")
                  ELSE /\ pc' = "data"
                       /\ UNCHANGED <<exc, msg, is_history, infields, fields, indata, data, errors, columns>>
             ELSE /\ is_history' = (is_history \/ line = HISTORY_PROGRAM)
                  /\ IF infields
                     THEN /\ Len(fields) < MaxFields
                          /\ fields' = Append(fields, line)
                     ELSE UNCHANGED fields
                  /\ UNCHANGED <<pc, exc, msg, infields, indata, data, errors, columns>>

\* request.py 340-378: one turn of the loop that reads the data lines
ScanData ==
  /\ pc = "data"
  /\ UNCHANGED <<sendVars, optVars, buildVars, resVars, clientVars, fetchVars, callVars>>
  /\ \E inp \in DataLines \cup {<<EndOfInput>>} :
       /\ eof => inp = <<EndOfInput>>
       /\ eof' = (inp = <<EndOfInput>>)
       /\ last' = inp
       /\ LET toks == IF inp = <<EndOfInput>> THEN <<"">> ELSE inp
              flds == SubSeq(toks, 1, Len(toks) - 1)
              status_fields == StatusFields(is_history)
          IN IF toks = <<"START-OF-DATA">>
             THEN /\ UNCHANGED lines
                  /\ IF indata
                     THEN RaiseExc("BbdlParseError", "Unexpected START-OF-DATA: already parsing data")
                     ELSE /\ indata' = TRUE
                          /\ UNCHANGED <<pc, exc, msg, is_history, infields, fields, data, errors, columns>>
             ELSE IF toks = <<"END-OF-DATA">>
             THEN /\ UNCHANGED lines
                  /\ IF ~indata
                     THEN RaiseExc("BbdlParseError", "Unexpected END-OF-DATA: not parsing data")
                     ELSE /\ pc' = "reshape"
                          /\ UNCHANGED <<exc, msg, is_history, infields, fields, indata, data, errors, columns>>
             ELSE IF ~indata
             THEN UNCHANGED <<pc, exc, msg, is_history, infields, fields, indata, data, errors, columns, lines>>
             ELSE /\ Len(lines) < MaxRows
                  /\ lines' = Append(lines, flds)
                  /\ IF Len(flds) < 2
                     THEN RaiseExc("IndexError", "list index out of range")
                     ELSE /\ IF flds[2] = RC_OK
                             THEN LET row == DataRow(status_fields \o fields, flds, TRUE)
                                  IN /\ data' = Append(data, row)
                                     /\ columns' = AddColumns(columns, row.keys)
                                     /\ UNCHANGED errors
                             ELSE /\ errors' = Append(errors, ErrorRow(status_fields, flds))
                                  /\ UNCHANGED <<data, columns>>
                          /\ UNCHANGED <<pc, exc, msg, is_history, infields, fields, indata>>

\* request.py 385-404: the historical reshaping, and the return
Return ==
  /\ pc = "reshape"
  /\ UNCHANGED <<sendVars, optVars, buildVars, resVars, clientVars, fetchVars, callVars>>
  /\ IF NeedsReshape(is_history)
     THEN LET r == Reshape(data, [ok |-> TRUE, tickers |-> <<>>, rows |-> <<>>])
          IN IF r.ok
             THEN /\ data' = r.rows
                  /\ pc' = "done"
                  /\ UNCHANGED <<exc, msg>>
             ELSE /\ pc' = "raised" /\ exc' = "KeyError" /\ msg' = "key"
                  /\ UNCHANGED data
     ELSE /\ pc' = "done"
          /\ UNCHANGED <<exc, msg, data>>
  /\ UNCHANGED <<eof, is_history, infields, fields, indata, errors, columns, last, lines>>

NextParse == ScanHeader \/ ScanData \/ Return

SpecParse == InitParse /\ [][NextParse]_vars

\* ------------------------------------------------------------------ request.py: Request.send

\* A remote or local file name: pre \o base \o ext
Name(pre, base, ext) == [pre |-> pre, base |-> base, ext |-> ext]

\* str.endswith for a file name and a response name (which has no prefix)
EndsWith(f, s) == s.pre = "" /\ f.base = s.base /\ f.ext = s.ext

\* client.py 144-145: the request and response files of the part being sent, which
\* is part 0 for a send on its own
PartName(part, ext) == "fprp0" \o ToString(part) \o ext
reqname == Name("", PartName(c_part, ".req"), "")
respfile0 == Name("", PartName(c_part, ".out"), "")

\* The names the remote side may hold besides the uploaded request
ServerNames == {Name(p, PartName(c_part, ".out"), e) : p \in {"", "old_"}, e \in {"", ".gz"}}

\* Gz looking at options.compressed alone
GzCompressedOnly(o) == o.compressed

\* request.py 261-264
SendIsHistory(o) == Truthy(o.begdate) \/ Truthy(o.enddate)
Gz(o) == o.compressed \/ SendIsHistory(o)
respname(o) == IF Gz(o) THEN Name("", respfile0.base, ".gz") ELSE respfile0

\* Attempts with one poll too many
AttemptsPlusOne(wait_time) == wait_time * 6 + 1

\* Attempts with twice the polls
AttemptsTwice(wait_time) == wait_time * 12

\* request.py 270: the number of polls
Attempts(wait_time) == wait_time * 6

InitSend ==
  /\ ParseIdle /\ OptIdle /\ BuildIdle /\ ResIdle /\ ClientIdle /\ FetchIdle /\ CallIdle
  /\ s_pc = "delete" /\ poll_i = 0 /\ local = {} /\ ops = <<>> /\ cancelled = FALSE
  /\ at_put = {}
  /\ sendopt \in [wait_time : 0..MaxWait, compressed : BOOLEAN,
                  begdate : {NoneS, "20251215"}, enddate : {NoneS, "20251216"}]
  /\ remote \in SUBSET ServerNames

\* request.py 266-267: the delete, whose failure is suppressed
Delete ==
  /\ s_pc = "delete"
  /\ \E fails \in BOOLEAN :
       IF fails
       THEN /\ ops' = Append(ops, "delete_failed")
            /\ UNCHANGED remote
       ELSE /\ ops' = Append(ops, "delete")
            /\ remote' = remote \ {respname(sendopt)}
  /\ s_pc' = "put"
  /\ UNCHANGED <<poll_i, sendopt, local, cancelled, at_put, parseVars, optVars, buildVars, resVars, clientVars, fetchVars, callVars>>

\* request.py 268
PutAscii ==
  /\ s_pc = "put"
  /\ remote' = remote \cup {reqname}
  /\ at_put' = remote
  /\ ops' = Append(ops, "put")
  /\ s_pc' = "loop"
  /\ UNCHANGED <<poll_i, sendopt, local, cancelled, parseVars, optVars, buildVars, resVars, clientVars, fetchVars, callVars>>

\* request.py 270-272: the loop goes on and sleeps
Sleep ==
  /\ s_pc = "loop" /\ poll_i < Attempts(sendopt.wait_time)
  /\ ops' = Append(ops, "sleep")
  /\ s_pc' = "list"
  /\ UNCHANGED <<poll_i, sendopt, remote, local, cancelled, at_put, parseVars, optVars, buildVars, resVars, clientVars, fetchVars, callVars>>

\* request.py 281-282: the loop is exhausted
Timeout ==
  /\ s_pc = "loop" /\ poll_i >= Attempts(sendopt.wait_time)
  /\ s_pc' = "timeout"
  /\ UNCHANGED <<poll_i, sendopt, remote, local, ops, cancelled, at_put, parseVars, optVars, buildVars, resVars, clientVars, fetchVars, callVars>>

\* request.py 273-275: files() returns the remote names, or None
ListFiles ==
  /\ s_pc = "list"
  /\ \E none \in BOOLEAN :
       LET files == IF none THEN {} ELSE remote
           found == {f \in files : EndsWith(f, respname(sendopt))}
       IN IF found # {}
          THEN /\ ops' = Append(ops, "list_found")
               /\ s_pc' = "get"
               /\ UNCHANGED poll_i
          ELSE /\ ops' = Append(ops, "list")
               /\ s_pc' = "loop"
               /\ poll_i' = poll_i + 1
  /\ UNCHANGED <<sendopt, remote, local, cancelled, at_put, parseVars, optVars, buildVars, resVars, clientVars, fetchVars, callVars>>

\* GetBinary going back to the loop after the download
GetBinaryNoBreak ==
  /\ s_pc = "get"
  /\ ops' = Append(ops, "get")
  /\ IF respname(sendopt) \in remote
     THEN /\ local' = local \cup {respname(sendopt)}
          /\ s_pc' = "loop"
     ELSE /\ s_pc' = "failed"
          /\ UNCHANGED local
  /\ UNCHANGED <<poll_i, sendopt, remote, cancelled, at_put, parseVars, optVars, buildVars, resVars, clientVars, fetchVars, callVars>>

\* request.py 277: the download of respname, which the transport refuses when the
\* remote side holds no file of that name
GetBinary ==
  /\ s_pc = "get"
  /\ ops' = Append(ops, "get")
  /\ IF respname(sendopt) \in remote
     THEN /\ local' = local \cup {respname(sendopt)}
          /\ s_pc' = IF Gz(sendopt) THEN "unzip" ELSE "done"
     ELSE /\ s_pc' = "failed"
          /\ UNCHANGED local
  /\ UNCHANGED <<poll_i, sendopt, remote, cancelled, at_put, parseVars, optVars, buildVars, resVars, clientVars, fetchVars, callVars>>

\* request.py 278-280 and 304-310
Unzip ==
  /\ s_pc = "unzip"
  /\ local' = (local \ {respname(sendopt)}) \cup {respfile0}
  /\ s_pc' = "done"
  /\ UNCHANGED <<poll_i, sendopt, remote, ops, cancelled, at_put, parseVars, optVars, buildVars, resVars, clientVars, fetchVars, callVars>>

\* The remote system puts a file on its side while send runs
ServerWrites ==
  /\ s_pc \in {"put", "loop", "list", "get"}
  /\ \E f \in ServerNames : f \notin remote /\ remote' = remote \cup {f}
  /\ UNCHANGED <<s_pc, poll_i, sendopt, local, ops, cancelled, at_put, parseVars, optVars, buildVars, resVars, clientVars, fetchVars, callVars>>

\* The caller of send gives up waiting for the response. Neither send (request.py
\* 257) nor the options it reads (options.py 25-44) has a deadline or a cancellation
\* to pass it by, so nothing in send reads the request.
CallerCancels ==
  /\ s_pc \in {"loop", "list"} /\ ~cancelled
  /\ cancelled' = TRUE
  /\ UNCHANGED <<s_pc, poll_i, sendopt, remote, local, ops, at_put, parseVars, optVars, buildVars, resVars, clientVars, fetchVars, callVars>>

NextSend ==
  \/ Delete \/ PutAscii \/ Sleep \/ Timeout \/ ListFiles \/ GetBinary \/ Unzip \/ ServerWrites
  \/ CallerCancels

SpecSend == InitSend /\ [][NextSend]_vars

\* The steps of send itself. send runs in one thread: when the call or the sleep it is
\* in returns, its next statement is executed.
SendSteps == Delete \/ PutAscii \/ Sleep \/ Timeout \/ ListFiles \/ GetBinary \/ Unzip

\* send and the remote system, without a caller that gives up
NextSendFair == SendSteps \/ ServerWrites

SpecSendFair == InitSend /\ [][NextSendFair]_vars /\ WF_vars(SendSteps)

\* ------------------------------------------------------------------ options.py: BbdlOptions

\* ValidProgramflag comparing without regard to case
ValidProgramflagAnyCase(programflag) == programflag \in {"oneshot", "adhoc", "ADHOC"}

\* options.py 49
ValidProgramflag(programflag) == programflag \in {"oneshot", "adhoc"}

\* options.py 58-59
is_terminal(o) == Truthy(o.sn) \/ Truthy(o.ws) \/ Truthy(o.usernumber)

\* terminal_open asking for sn only
terminal_open_SnOnly(o) ==
  IF ~Truthy(o.sn) THEN <<"BbdlValidationError", "SN must be provided for terminal linking">>
  ELSE <<>>

\* options.py 62-71: the exception terminal_open raises, <<>> when it raises none
terminal_open(o) ==
  IF ~Truthy(o.sn) THEN <<"BbdlValidationError", "SN must be provided for terminal linking">>
  ELSE IF ~Truthy(o.ws) THEN <<"BbdlValidationError", "WS must be provided for terminal linking">>
  ELSE <<>>

\* terminal_bba_fields clearing ws only
terminal_bba_fields_KeepsSn(o) == [o EXCEPT !.ws = NoneS]

\* options.py 74-84: the object after terminal_bba, and the exception it raises
terminal_bba_fields(o) == [o EXCEPT !.sn = NoneS, !.ws = NoneS]

\* terminal_bba asking for nothing
terminal_bba_NoCheck(o) == <<>>

terminal_bba(o) ==
  IF ~Truthy(o.usernumber)
  THEN <<"BbdlValidationError", "Usernumber must be provided for BBA terminal linking">>
  ELSE <<>>

\* The arguments a caller may give the constructor
OptionArgs ==
  [programflag : {"adhoc", "oneshot", "ADHOC", "invalid", ""},
   is_bba : BOOLEAN,
   sn : {NoneS, "", "123"}, ws : {NoneS, "", "45"}, usernumber : {NoneS, "", "6789"},
   begdate : {NoneS, "20251215"}, enddate : {NoneS, "20251216"}]

InitOptions ==
  /\ ParseIdle /\ SendIdle /\ BuildIdle /\ ResIdle /\ ClientIdle /\ FetchIdle /\ CallIdle
  /\ o_pc = "new" /\ o_exc = <<>>
  /\ o_args \in OptionArgs
  /\ options = o_args

\* options.py 46-55
PostInit ==
  /\ o_pc = "new"
  /\ LET o1 == [options EXCEPT !.begdate = IF Truthy(@) THEN @ ELSE NoneS,
                               !.enddate = IF Truthy(@) THEN @ ELSE NoneS]
         o2 == IF is_terminal(o1) /\ o1.is_bba THEN terminal_bba_fields(o1) ELSE o1
         e == IF ~is_terminal(o1) THEN <<>>
              ELSE IF o1.is_bba THEN terminal_bba(o2) ELSE terminal_open(o1)
     IN IF ~ValidProgramflag(o1.programflag)
        THEN /\ options' = o1
             /\ o_pc' = "raised"
             /\ o_exc' = <<"BbdlValidationError", "programflag must be 'oneshot' or 'adhoc'">>
        ELSE /\ options' = o2
             /\ o_exc' = e
             /\ o_pc' = IF e = <<>> THEN "ok" ELSE "raised"
  /\ UNCHANGED <<o_args, parseVars, sendVars, buildVars, resVars, clientVars, fetchVars, callVars>>

NextOptions == PostInit

SpecOptions == InitOptions /\ [][NextOptions]_vars

\* ------------------------------------------------------------------ request.py: Request.build

COMPRESS_FLAG == "COMPRESS=yes"
YELLOW_KEYS == {"Comdty", "Equity", "Muni", "Pfd", "M-Mkt", "Govt", "Corp", "Index",
                "Curncy", "Mtge"}

\* A Date, and the None that stands where no date is given
NoDate == [y |-> "", m |-> "", d |-> ""]
Date(y, m, d) == [y |-> y, m |-> m, d |-> d]
IsSet(date) == date # NoDate

\* format(date, '%Y%m%d')
FormatDate(date) == date.y \o date.m \o date.d

\* str(x) and '{}'.format(x)
Fmt(x) == IF x = NoneS THEN "None" ELSE x

\* sep.join(s)
RECURSIVE Join(_, _)
Join(sep, s) ==
  IF s = <<>> THEN ""
  ELSE IF Len(s) = 1 THEN s[1]
  ELSE s[1] \o sep \o Join(sep, Tail(s))

\* request.py 29-36, 38-46, 48-50, 19-27: the templates, as their lines
REQUEST_HEADER(o) ==
  <<"START-OF-FILE", "FIRMNAME=" \o Fmt(o.username), "PROGRAMFLAG=" \o Fmt(o.programflag),
    "DELIMITER=" \o Fmt(o.delimiter), "ADJUSTED=yes", "DATEFORMAT=" \o Fmt(o.dateformat)>>

BVAL_REQUEST_HEADER(o) ==
  <<"START-OF-FILE", "FIRMNAME=" \o Fmt(o.username), "DERIVED=yes",
    "DELIMITER=" \o Fmt(o.delimiter), "PRICING_SOURCE=BVAL:NY4PM", "SECMASTER=yes",
    "PROGRAMNAME=getdata">>

REQUEST_TRAILER == <<"END-OF-FILE">>

TERMINAL_HEADER(o) ==
  <<"USERNUMBER=" \o Fmt(o.usernumber), "SN=" \o Fmt(o.sn), "WS=" \o Fmt(o.ws)>>

TERMINAL_HEADER_BBA(o) == <<"USERNUMBER=" \o Fmt(o.usernumber)>>

\* request.py 192-196 and 198-202: the lines added to headers
HistoryBlock(o) ==
  <<HISTORY_PROGRAM, "HIST_FORMAT=horizontal",
    "DATERANGE=" \o FormatDate(o.begdate) \o "|" \o FormatDate(o.enddate)>>

SnapshotBlock == <<"SECMASTER=yes", "CLOSINGVALUES=yes", "DERIVED=yes">>

\* request.py 214-217
TerminalBlock(o) ==
  IF Truthy(o.usernumber) /\ o.is_bba THEN TERMINAL_HEADER_BBA(o)
  ELSE IF Truthy(o.usernumber) THEN TERMINAL_HEADER(o)
  ELSE <<>>

\* CompressLine writing the flag whatever headers holds
CompressLineAlways(o, headers) == IF o.compressed THEN <<COMPRESS_FLAG>> ELSE <<>>

\* request.py 212-213
CompressLine(o, headers) ==
  IF o.compressed /\ COMPRESS_FLAG \notin Range(headers) THEN <<COMPRESS_FLAG>> ELSE <<>>

\* An identifier: a str (seq is FALSE and el holds it alone) or a tuple or list of
\* elements, NoneS standing for None
Ticker(s) == [seq |-> FALSE, el |-> <<s>>]
Tuple(el) == [seq |-> TRUE, el |-> el]

\* str.split(' ')[-1], str.capitalize() and str.replace(old, new) on the tickers and
\* words of the model's alphabet
LastWord(s) ==
  CASE s = "ibm us equity" -> "equity"
    [] s = "IBM US Equity" -> "Equity"
    [] OTHER -> s
Capitalize(w) ==
  CASE w = "equity" -> "Equity"
    [] w = "88160RAG6" -> "88160rag6"
    [] OTHER -> w
Replace(s, old, new) ==
  CASE s = "ibm us equity" /\ old = "equity" /\ new = "Equity" -> "ibm us Equity"
    [] OTHER -> s

\* request.py 229-234: the line of a ticker without a type
TickerLine(s) ==
  LET origkey == LastWord(s)
      capkey == Capitalize(origkey)
  IN IF capkey \in YELLOW_KEYS THEN Replace(s, origkey, capkey) ELSE s

\* OverrideCount counting the type as an override
OverrideCountWithType(n) == n \div 2

\* request.py 242: int(len(iden) / 2 - 1)
OverrideCount(n) == (n - 2) \div 2

\* request.py 228-245: the line written for one identifier, or the exception
IdentifierLine(iden) ==
  LET el == iden.el
      n == Len(el)
  IN IF iden.seq /\ n = 0 THEN [exc |-> "IndexError", line |-> ""]
     ELSE IF ~iden.seq \/ n = 1 \/ el[n] = NoneS
     THEN IF el[1] = NoneS THEN [exc |-> "AttributeError", line |-> ""]
          ELSE [exc |-> "none", line |-> TickerLine(el[1])]
     ELSE IF n = 2 THEN [exc |-> "none", line |-> Fmt(el[1]) \o "|" \o Fmt(el[2])]
     ELSE IF n > 3 /\ n % 2 = 0
     THEN [exc |-> "none",
           line |-> Fmt(el[1]) \o "|" \o Fmt(el[2]) \o "|" \o ToString(OverrideCount(n)) \o "|"
                    \o Join("|", [j \in 1..(n - 2) |-> Fmt(el[j + 2])])]
     ELSE [exc |-> "ValueError", line |-> ""]

\* The options a caller may pass to build: objects the constructor has accepted
\* (options.py 46-55), with bval, headers, begdate and enddate as client.py 135-138
\* assigns them
BuildArgs ==
  [bval : BOOLEAN, headers : {<<>>, <<COMPRESS_FLAG>>}, compressed : BOOLEAN,
   begdate : {NoDate, Date("2025", "12", "15")}, enddate : {NoDate, Date("2025", "12", "16")},
   is_bba : BOOLEAN, sn : {NoneS, "123"}, ws : {NoneS, "45"}, usernumber : {NoneS, "6789"},
   username : {NoneS}, programflag : {"adhoc"}, delimiter : {"|"}, dateformat : {"yyyymmdd"}]

Accepted(a) ==
  /\ ValidProgramflag(a.programflag)
  /\ is_terminal(a) =>
       IF a.is_bba THEN terminal_bba(terminal_bba_fields(a)) = <<>> ELSE terminal_open(a) = <<>>

Constructed(a) == IF is_terminal(a) /\ a.is_bba THEN terminal_bba_fields(a) ELSE a

BuildOptions == {Constructed(a) : a \in {x \in BuildArgs : Accepted(x)}}

\* The field lists and the identifiers a caller may pass
FieldLists == {<<>>, <<"dvd_hist", "PX_LAST">>, <<"PX_LAST ">>, <<"END-OF-FIELDS", "PX_LAST">>}

IdentifierArgs ==
  {Ticker("ibm us equity"),
   Tuple(<<"88160RAG6", "CUSIP">>),
   Tuple(<<"IBM US Equity", NoneS>>),
   Tuple(<<"88160RAG6", "CUSIP", "K1">>),
   Tuple(<<"88160RAG6", "CUSIP", "K1", "V1">>),
   Tuple(<<"88160RAG6", "CUSIP", "K1", "V1", "K2">>),
   Tuple(<<"88160RAG6", "CUSIP", "K1", "V1", "K2", "V2">>)}

InitBuild ==
  /\ ParseIdle /\ SendIdle /\ OptIdle /\ ResIdle /\ ClientIdle /\ FetchIdle /\ CallIdle
  /\ b_pc = "start" /\ b_headers = <<>> /\ b_fields = <<>> /\ b_identifiers = <<>>
  /\ b_file = <<>> /\ b_exc = <<>>
  /\ b_entry \in BuildOptions
  /\ b_options = b_entry

\* request.py 187-202: the list headers; formatting a begdate that is None raises TypeError
BuildHeaders ==
  /\ b_pc = "start"
  /\ LET o == b_options
         history == IsSet(o.begdate) \/ IsSet(o.enddate)
         o1 == IF history /\ ~IsSet(o.enddate) THEN [o EXCEPT !.enddate = o.begdate] ELSE o
     IN /\ b_options' = o1
        /\ IF history /\ ~IsSet(o1.begdate)
           THEN /\ b_pc' = "raised"
                /\ b_exc' = <<"TypeError", "unsupported format string passed to NoneType.__format__">>
                /\ UNCHANGED b_headers
           ELSE /\ b_pc' = "open"
                /\ b_headers' = o.headers \o (IF history THEN HistoryBlock(o1) ELSE SnapshotBlock)
                /\ UNCHANGED b_exc
  /\ UNCHANGED <<b_entry, b_fields, b_identifiers, b_file, parseVars, sendVars, optVars, resVars, clientVars, fetchVars, callVars>>

\* request.py 204-218
WriteHeader ==
  /\ b_pc = "open"
  /\ b_file' = (IF b_options.bval THEN BVAL_REQUEST_HEADER(b_options)
                                  ELSE REQUEST_HEADER(b_options))
               \o b_headers
               \o CompressLine(b_options, b_headers)
               \o TerminalBlock(b_options)
               \o <<"">>
  /\ b_pc' = "fields"
  /\ UNCHANGED <<b_entry, b_options, b_headers, b_fields, b_identifiers, b_exc,
                 parseVars, sendVars, optVars, resVars, clientVars, fetchVars, callVars>>

\* request.py 219-225
WriteFields ==
  /\ b_pc = "fields"
  /\ \E flds \in FieldLists :
       /\ b_fields' = flds
       /\ b_file' = b_file \o <<"START-OF-FIELDS">> \o flds \o <<"END-OF-FIELDS", "", "START-OF-DATA">>
  /\ b_pc' = "data"
  /\ UNCHANGED <<b_entry, b_options, b_headers, b_identifiers, b_exc,
                 parseVars, sendVars, optVars, resVars, clientVars, fetchVars, callVars>>

\* request.py 226-245: one turn of the loop over identifiers
WriteIdentifier ==
  /\ b_pc = "data" /\ Len(b_identifiers) < MaxIdens
  /\ \E iden \in IdentifierArgs :
       LET r == IdentifierLine(iden)
       IN /\ b_identifiers' = Append(b_identifiers, iden)
          /\ IF r.exc = "none"
             THEN /\ b_file' = Append(b_file, r.line)
                  /\ UNCHANGED <<b_pc, b_exc>>
             ELSE /\ b_pc' = "raised"
                  /\ b_exc' = <<r.exc, iden>>
                  /\ UNCHANGED b_file
  /\ UNCHANGED <<b_entry, b_options, b_headers, b_fields, parseVars, sendVars, optVars, resVars, clientVars, fetchVars, callVars>>

\* request.py 246-254: the loop has read every identifier
WriteTrailer ==
  /\ b_pc = "data"
  /\ b_file' = b_file \o <<"END-OF-DATA", "">> \o REQUEST_TRAILER
  /\ b_pc' = "done"
  /\ UNCHANGED <<b_entry, b_options, b_headers, b_fields, b_identifiers, b_exc,
                 parseVars, sendVars, optVars, resVars, clientVars, fetchVars, callVars>>

\* HeaderTurn putting each field name in front of the list
HeaderTurnInFront(st, line) ==
  LET h == st.is_history \/ line = HISTORY_PROGRAM
  IN IF line = "START-OF-FIELDS" THEN [st EXCEPT !.is_history = h, !.infields = TRUE]
     ELSE IF line = "END-OF-FIELDS" THEN [st EXCEPT !.is_history = h, !.out = "break"]
     ELSE IF ~st.infields THEN [st EXCEPT !.is_history = h]
     ELSE [st EXCEPT !.is_history = h, !.fields = <<line>> \o @]

\* request.py 323-337: one turn of the loop that reads the field names, as a function
\* of the line read; out is "break" after END-OF-FIELDS and "raise" after BbdlParseError
HeaderTurn(st, line) ==
  LET h == st.is_history \/ line = HISTORY_PROGRAM
  IN IF line = "START-OF-FIELDS"
     THEN IF st.infields THEN [st EXCEPT !.is_history = h, !.out = "raise",
                                         !.msg = "Unexpected START-OF-FIELDS: already parsing fields"]
                         ELSE [st EXCEPT !.is_history = h, !.infields = TRUE]
     ELSE IF line = "END-OF-FIELDS"
     THEN IF ~st.infields THEN [st EXCEPT !.is_history = h, !.out = "raise",
                                          !.msg = "Unexpected END-OF-FIELDS: not parsing fields"]
                          ELSE [st EXCEPT !.is_history = h, !.out = "break"]
     ELSE IF ~st.infields THEN [st EXCEPT !.is_history = h]
     ELSE [st EXCEPT !.is_history = h, !.fields = Append(@, line)]

\* request.py 319-337 over the lines of a text; past its last line readline() returns ''
\* for ever and the loop does not end (out is "spin")
RECURSIVE HeaderScan(_, _, _)
HeaderScan(text, n, st) ==
  IF st.out # "scan" THEN st
  ELSE IF n > Len(text) THEN [st EXCEPT !.out = "spin"]
  ELSE HeaderScan(text, n + 1, HeaderTurn(st, Strip(text[n])))

\* request.py 319-337 on the file build has written (the round trip of the header)
Decode ==
  /\ b_pc = "done" /\ pc = "idle"
  /\ LET st == HeaderScan(b_file, 1, [is_history |-> FALSE, infields |-> FALSE, fields |-> <<>>,
                                      out |-> "scan", msg |-> ""])
     IN /\ is_history' = st.is_history
        /\ infields' = st.infields
        /\ fields' = st.fields
        /\ pc' = CASE st.out = "break" -> "data" [] st.out = "raise" -> "raised" [] OTHER -> "header"
        /\ exc' = IF st.out = "raise" THEN "BbdlParseError" ELSE "none"
        /\ msg' = st.msg
        /\ eof' = (st.out = "spin")
  /\ UNCHANGED <<indata, data, errors, columns, last, lines, buildVars, sendVars, optVars, resVars, clientVars, fetchVars, callVars>>

NextBuild == BuildHeaders \/ WriteHeader \/ WriteFields \/ WriteIdentifier \/ WriteTrailer \/ Decode

SpecBuild == InitBuild /\ [][NextBuild]_vars

\* ------------------------------------------------------------------ request.py: Result

\* request.py 95-98
Result == [data |-> <<>>, errors |-> <<>>, _columns |-> <<>>]

\* request.py 100-103: the object after its columns are read; the list read is its _columns
Result_columns(res) == [res EXCEPT !._columns = unique(@)]

\* Result_extend putting what it adds in front
Result_extend_InFront(self, other) ==
  LET o == Result_columns(other)
      s == IF o._columns # <<>> THEN Result_columns(self) ELSE self
  IN [self |-> [data |-> other.data \o self.data,
                errors |-> other.errors \o self.errors,
                _columns |-> o._columns \o s._columns],
      other |-> o]

\* request.py 109-115: self and other after self.extend(other)
Result_extend(self, other) ==
  LET o == Result_columns(other)
      s == IF o._columns # <<>> THEN Result_columns(self) ELSE self
  IN [self |-> [data |-> IF other.data # <<>> THEN self.data \o other.data ELSE self.data,
                errors |-> IF other.errors # <<>> THEN self.errors \o other.errors ELSE self.errors,
                _columns |-> IF o._columns # <<>> THEN s._columns \o o._columns ELSE self._columns],
      other |-> o]

\* request.py 356-378 over the lines of a data block of a response without the history
\* marker: the Result, and in log the mnemonics appended to its columns, in order
RECURSIVE ParseLines(_, _, _)
ParseLines(flds_of, names, acc) ==
  IF flds_of = <<>> THEN acc
  ELSE LET flds == flds_of[1]
       IN IF flds[2] = RC_OK
          THEN LET row == DataRow(STATUS_FIELDS \o names, flds, TRUE)
               IN ParseLines(Tail(flds_of), names,
                             [res |-> [acc.res EXCEPT !.data = Append(@, row),
                                                      !._columns = AddColumns(@, row.keys)],
                              log |-> acc.log \o row.keys])
          ELSE ParseLines(Tail(flds_of), names,
                          [acc EXCEPT !.res.errors = Append(@, ErrorRow(STATUS_FIELDS, flds))])

\* The field lists of the parts of a request (client.py 140-146) and the data blocks
\* of their responses, each line as its flds
PartFields == {<<"PX_LAST">>, <<"dvd_hist", "PX_LAST">>, <<"BOGUS">>}

PartLines == {
  <<>>,
  << <<"A", "0", "1", "145.50">> >>,
  << <<"A", "0", "2", "145.50", "N.A.">>, <<"B", "10", "0">> >>,
  << <<"B ", "0", "1", "N.A.">>, <<"A", "0", "1", "145.50">> >> }

InitResult ==
  /\ ParseIdle /\ SendIdle /\ OptIdle /\ BuildIdle /\ ClientIdle /\ FetchIdle /\ CallIdle
  /\ r_pc = "parse"
  /\ r_self = Result
  /\ r_other = Result
  /\ r_before = <<>>
  /\ r_log = [self |-> <<>>, other |-> <<>>, parts |-> 0]

\* client.py 148: the response of one part is decoded into a new Result
ParseResponse ==
  /\ r_pc = "parse" /\ r_log.parts < MaxParts
  /\ \E names \in PartFields : \E flds_of \in PartLines :
       LET r == ParseLines(flds_of, names, [res |-> Result, log |-> <<>>])
       IN /\ r_other' = r.res
          /\ r_log' = [r_log EXCEPT !.other = r.log]
  /\ r_pc' = "extend"
  /\ UNCHANGED <<r_self, r_before, parseVars, sendVars, optVars, buildVars, clientVars, fetchVars, callVars>>

\* client.py 149: result.extend(_result)
Extend ==
  /\ r_pc = "extend"
  /\ LET r == Result_extend(r_self, r_other)
     IN /\ r_self' = r.self
        /\ r_other' = r.other
  /\ r_before' = [self |-> r_self, other |-> r_other]
  /\ r_log' = [r_log EXCEPT !.self = @ \o r_log.other, !.parts = @ + 1]
  /\ r_pc' = "parse"
  /\ UNCHANGED <<parseVars, sendVars, optVars, buildVars, clientVars, fetchVars, callVars>>

\* request.py 100-103: a caller reads result.columns
ReadColumns ==
  /\ r_pc = "parse"
  /\ r_self' = Result_columns(r_self)
  /\ UNCHANGED <<r_pc, r_other, r_before, r_log, parseVars, sendVars, optVars, buildVars, clientVars, fetchVars, callVars>>

NextResult == ParseResponse \/ Extend \/ ReadColumns

SpecResult == InitResult /\ [][NextResult]_vars

\* ------------------------------------------------------------------ client.py: SFTPClient.request

\* client.py 139: int((len(fields) - 1) / 500) + 1 for one field or more
Nparts(nfields) == (nfields - 1) \div 500 + 1

\* BuildOutcome looking at the first identifier only
BuildOutcomeFirstOnly(sids, o) ==
  IF (Truthy(o.begdate) \/ Truthy(o.enddate)) /\ ~Truthy(o.begdate) THEN "TypeError"
  ELSE IdentifierLine(sids[1]).exc

\* request.py 177-254: the exception build ends with for these identifiers and
\* options, "none" when it writes the file
BuildOutcome(sids, o) ==
  LET bad == {j \in 1..Len(sids) : IdentifierLine(sids[j]).exc # "none"}
  IN IF (Truthy(o.begdate) \/ Truthy(o.enddate)) /\ ~Truthy(o.begdate) THEN "TypeError"
     ELSE IF bad = {} THEN "none"
     ELSE IdentifierLine(sids[CHOOSE j \in bad : \A k \in bad : j <= k]).exc

\* request.py 189-191: build assigns begdate to an enddate that is not set
BuildAssigns(o) ==
  IF Truthy(o.begdate) /\ ~Truthy(o.enddate) THEN [o EXCEPT !.enddate = o.begdate] ELSE o

\* Chunk taking every slice from the first field
ChunkFromStart(nfields, part) == [lo |-> 0, hi |-> IF 500 < nfields THEN 500 ELSE nfields]

\* client.py 143, 146: fields[i:i+500] with i = part*500, as the places lo+1..hi of fields
Chunk(nfields, part) ==
  [lo |-> part * 500, hi |-> IF part * 500 + 500 < nfields THEN part * 500 + 500 ELSE nfields]

\* client.py 148: the rows of the response to the request of a part, one for each sid
ResponseRows(sids, part) == [j \in 1..Len(sids) |-> [sid |-> j, part |-> part]]

\* The operations of one send, each with the part it was made for
Tagged(log, part) == [n \in 1..Len(log) |-> <<log[n], part>>]

\* The numbers of fields and the sids a caller may pass
FieldCounts == {0, 1} \cup {500 * k : k \in 1..MaxParts} \cup {500 * k + 1 : k \in 1..(MaxParts - 1)}

SidLists ==
  {<<>>, <<Ticker("ibm us equity")>>,
   <<Ticker("ibm us equity"), Tuple(<<"88160RAG6", "CUSIP", "K1">>)>>}

InitClient ==
  /\ ParseIdle /\ OptIdle /\ BuildIdle /\ ResIdle /\ FetchIdle /\ CallIdle
  /\ s_pc = "idle" /\ poll_i = 0 /\ remote = {} /\ local = {} /\ ops = <<>> /\ cancelled = FALSE
  /\ at_put = {}
  /\ sendopt \in [wait_time : {0, 1}, compressed : {FALSE},
                  begdate : {NoneS, "20251215"}, enddate : {NoneS}]
  /\ c_pc = "start" /\ c_part = 0 /\ c_log = <<>> /\ c_exc = "none"
  /\ c_chunks = <<>> /\ c_result = <<>>
  /\ c_args \in [sids : SidLists, nfields : FieldCounts]

\* client.py 129-141: the arguments are looked at and the loop is entered
Begin ==
  /\ c_pc = "start"
  /\ IF c_args.sids = <<>> \/ c_args.nfields = 0
     THEN c_pc' = "raised" /\ c_exc' = "ValueError"
     ELSE c_pc' = "build" /\ c_exc' = c_exc
  /\ UNCHANGED <<c_args, c_part, c_log, c_chunks, c_result, parseVars, sendVars, optVars, buildVars, resVars, fetchVars, callVars>>

\* client.py 143-146: the request file of the part is built; when build returns,
\* send is entered (147)
ClientBuild ==
  /\ c_pc = "build"
  /\ c_log' = Append(c_log, <<"build", c_part>>)
  /\ c_chunks' = Append(c_chunks, Chunk(c_args.nfields, c_part))
  /\ LET e == BuildOutcome(c_args.sids, sendopt)
     IN IF e # "none"
        THEN /\ c_pc' = "raised" /\ c_exc' = e
             /\ UNCHANGED <<s_pc, poll_i, sendopt, ops>>
        ELSE /\ c_pc' = "send" /\ c_exc' = c_exc
             /\ sendopt' = BuildAssigns(sendopt)
             /\ s_pc' = "delete" /\ poll_i' = 0 /\ ops' = <<>>
  /\ UNCHANGED <<c_args, c_part, c_result, remote, local, cancelled, at_put, parseVars, optVars, buildVars, resVars, fetchVars, callVars>>

\* SendEnds going on to the next build after a timeout
SendEndsGoesOn ==
  /\ c_pc = "send" /\ s_pc \in {"done", "timeout", "failed"}
  /\ c_log' = c_log \o Tagged(ops, c_part)
  /\ IF s_pc = "done"
     THEN c_pc' = "parse" /\ c_exc' = c_exc
     ELSE /\ c_pc' = IF s_pc = "timeout" THEN "build" ELSE "raised"
          /\ c_exc' = IF s_pc = "timeout" THEN "BbdlTimeoutError" ELSE "TransportError"
  /\ s_pc' = "idle" /\ ops' = <<>>
  /\ UNCHANGED <<c_args, c_part, c_chunks, c_result, poll_i, sendopt, remote, local, cancelled, at_put,
                 parseVars, optVars, buildVars, resVars, fetchVars, callVars>>

\* client.py 147: send returns, or raises and request ends with its exception
SendEnds ==
  /\ c_pc = "send" /\ s_pc \in {"done", "timeout", "failed"}
  /\ c_log' = c_log \o Tagged(ops, c_part)
  /\ IF s_pc = "done"
     THEN c_pc' = "parse" /\ c_exc' = c_exc
     ELSE /\ c_pc' = "raised"
          /\ c_exc' = IF s_pc = "timeout" THEN "BbdlTimeoutError" ELSE "TransportError"
  /\ s_pc' = "idle" /\ ops' = <<>>
  /\ UNCHANGED <<c_args, c_part, c_chunks, c_result, poll_i, sendopt, remote, local, cancelled, at_put,
                 parseVars, optVars, buildVars, resVars, fetchVars, callVars>>

\* client.py 148-150: the response is decoded and merged, and the loop goes on to the
\* next part or request returns; a response that cannot be decoded ends request
ClientParse ==
  /\ c_pc = "parse"
  /\ \E decoded \in BOOLEAN :
       IF decoded
       THEN /\ c_log' = c_log \o << <<"parse", c_part>>, <<"extend", c_part>> >>
            /\ c_result' = c_result \o ResponseRows(c_args.sids, c_part)
            /\ c_part' = c_part + 1
            /\ c_pc' = IF c_part + 1 < Nparts(c_args.nfields) THEN "build" ELSE "returned"
            /\ c_exc' = c_exc
       ELSE /\ c_log' = Append(c_log, <<"parse", c_part>>)
            /\ c_pc' = "raised" /\ c_exc' = "BbdlParseError"
            /\ UNCHANGED <<c_part, c_result>>
  /\ UNCHANGED <<c_args, c_chunks, parseVars, sendVars, optVars, buildVars, resVars, fetchVars, callVars>>

\* The remote system answers the request that was uploaded
ServerAnswers ==
  /\ c_pc = "send" /\ s_pc \in {"loop", "list"} /\ respname(sendopt) \notin remote
  /\ remote' = remote \cup {respname(sendopt)}
  /\ UNCHANGED <<s_pc, poll_i, sendopt, local, ops, cancelled, at_put,
                 parseVars, optVars, buildVars, resVars, clientVars, fetchVars, callVars>>

NextClient ==
  \/ Begin \/ ClientBuild \/ SendEnds \/ ClientParse
  \/ Delete \/ PutAscii \/ Sleep \/ Timeout \/ ListFiles \/ GetBinary \/ Unzip \/ ServerAnswers

SpecClient == InitClient /\ [][NextClient]_vars

\* ------------------------------------------------------------------ client.py: the options of a session over its requests

MaxCalls == 2

\* What a caller may pass for bval, headers, begdate and enddate (client.py 105-109;
\* <<>> stands for the default headers=None, NoneS for a date that is not passed), and
\* what the options of the session may hold in these fields
CallArgs ==
  [bval : BOOLEAN, headers : {<<>>, <<COMPRESS_FLAG>>},
   begdate : {NoneS, "20251215"}, enddate : {NoneS, "20251216"}]

SessionOptions == CallArgs

\* RequestOptions working on self.options itself
RequestOptionsShared(session, a) ==
  LET o == [session EXCEPT !.bval = a.bval, !.headers = a.headers,
                           !.begdate = a.begdate, !.enddate = a.enddate]
  IN [self |-> o, options |-> o]

\* client.py 132-136: options is a deep copy of self.options with the four arguments
\* assigned; self.options is the object it was
RequestOptions(session, a) ==
  [self |-> session,
   options |-> [session EXCEPT !.bval = a.bval, !.headers = a.headers,
                               !.begdate = a.begdate, !.enddate = a.enddate]]

\* p_in holds the options the session was made with and the calls of request to come,
\* each for a new request with sids and fields; p_out holds self.options and, for
\* every call made, the options build was called with
InitSession ==
  /\ ParseIdle /\ SendIdle /\ OptIdle /\ BuildIdle /\ ResIdle /\ ClientIdle /\ FetchIdle
  /\ p_pc = "call"
  /\ p_in \in [session : SessionOptions,
               calls : UNION {[1..n -> CallArgs] : n \in 1..MaxCalls}]
  /\ p_out = [session |-> p_in.session, built |-> <<>>]

\* client.py 132-149 for one call: the options are made and passed to build, which
\* fills in an end date that is not set (request.py 189-191) in the object it got;
\* send and parse read the options only, and whether the call returns or raises
\* makes no difference to self.options
RequestCall ==
  /\ p_pc = "call"
  /\ LET r == RequestOptions(p_out.session, p_in.calls[Len(p_out.built) + 1])
     IN /\ p_out' = [session |-> r.self, built |-> Append(p_out.built, BuildAssigns(r.options))]
        /\ p_pc' = IF Len(p_out.built) + 1 = Len(p_in.calls) THEN "done" ELSE "call"
  /\ UNCHANGED <<p_in, parseVars, sendVars, optVars, buildVars, resVars, clientVars, fetchVars>>

NextSession == RequestCall

SpecSession == InitSession /\ [][NextSession]_vars

\* ------------------------------------------------------------------ client.py: _fetch_by_date

MaxFiles == 3

\* A line of a response header: <<key, value>> for 'key=value', <<text>> otherwise.
\* _parse_rundate reading past START-OF-FIELDS
RECURSIVE _parse_rundate_WholeFile(_)
_parse_rundate_WholeFile(content) ==
  IF content = <<>> THEN NoneS
  ELSE IF content[1][1] = "RUNDATE" THEN content[1][2]
  ELSE _parse_rundate_WholeFile(Tail(content))

\* client.py 44-52: the RUNDATE of a response file, None when START-OF-FIELDS or the
\* end of the file comes first
RECURSIVE _parse_rundate(_)
_parse_rundate(content) ==
  IF content = <<>> THEN NoneS
  ELSE IF content[1][1] = "RUNDATE" THEN content[1][2]
  ELSE IF content[1][1] = "START-OF-FIELDS" THEN NoneS
  ELSE _parse_rundate(Tail(content))

\* The files the remote side may hold: a name ending and the head of the content
RemoteFiles ==
  [ext : {".out", ".out.gz"},
   content : {<< <<"START-OF-FILE">>, <<"RUNDATE", "20251215">>, <<"START-OF-FIELDS">> >>,
              << <<"START-OF-FILE">>, <<"RUNDATE", "20251216">>, <<"START-OF-FIELDS">> >>,
              << <<"START-OF-FILE">>, <<"START-OF-FIELDS">>, <<"RUNDATE", "20251215">> >>,
              << <<"START-OF-FILE">> >>}]

InitFetch ==
  /\ ParseIdle /\ SendIdle /\ OptIdle /\ BuildIdle /\ ResIdle /\ ClientIdle /\ CallIdle
  /\ f_pc = "list" /\ f_i = 0 /\ f_log = <<>> /\ f_out = <<>>
  /\ f_target \in {"20251215", "20251217"}
  /\ f_remote \in UNION {[1..n -> RemoteFiles] : n \in 0..MaxFiles}

\* client.py 126-127 and 157: request hands the call over and the remote files are listed
FetchList ==
  /\ f_pc = "list"
  /\ f_log' = Append(f_log, <<"list">>)
  /\ f_i' = 1
  /\ f_pc' = "loop"
  /\ UNCHANGED <<f_target, f_remote, f_out,
                 parseVars, sendVars, optVars, buildVars, resVars, clientVars, callVars>>

\* client.py 159-170: one turn of the loop over the listing, or its end
FetchTurn ==
  /\ f_pc = "loop"
  /\ IF f_i > Len(f_remote)
     THEN /\ f_pc' = "raised" /\ f_out' = <<"FileNotFoundError">>
          /\ UNCHANGED <<f_i, f_log>>
     ELSE IF f_remote[f_i].ext # ".out"
     THEN /\ f_i' = f_i + 1
          /\ UNCHANGED <<f_pc, f_log, f_out>>
     ELSE /\ f_log' = Append(f_log, <<"getbinary", f_i>>)
          /\ IF _parse_rundate(f_remote[f_i].content) = f_target
             THEN /\ f_pc' = "returned" /\ f_out' = <<"Result", f_i>>
                  /\ UNCHANGED f_i
             ELSE /\ f_i' = f_i + 1
                  /\ UNCHANGED <<f_pc, f_out>>
  /\ UNCHANGED <<f_target, f_remote,
                 parseVars, sendVars, optVars, buildVars, resVars, clientVars, callVars>>

NextFetch == FetchList \/ FetchTurn

SpecFetch == InitFetch /\ [][NextFetch]_vars

\* ------------------------------------------------------------------ parser.py: a call of _is_null

\* The values a caller may pass: scalars, and lists of up to MaxElems elements
NullScalars ==
  {None, Num("0"), Num("0.0"), Num("1")}
  \cup {Str(s) : s \in {"", "N.A.", "N.D.", "N.S.", "NaN", "None", "UNSPEC", "BEFORE MKT",
                        "AFTER MKT", "  N.A.  ", " n.a. ", "n.a.", "nan", "unspec", "  ",
                        "123", "hello"}}

NullElements ==
  {None, Str("N.A."), Str("n.a."), Str("value"), Num("0"), List(<<>>), List(<<None>>),
   List(<<Str("value")>>)}

NullInputs ==
  NullScalars \cup {List(l) : l \in UNION {[1..n -> NullElements] : n \in 0..MaxElems}}

InitIsNull ==
  /\ ParseIdle /\ SendIdle /\ OptIdle /\ BuildIdle /\ ResIdle /\ ClientIdle /\ FetchIdle
  /\ p_pc = "call" /\ p_out = <<>>
  /\ p_in \in NullInputs

CallIsNull ==
  /\ p_pc = "call"
  /\ p_out' = _is_null_value(p_in)
  /\ p_pc' = "done"
  /\ UNCHANGED <<p_in, parseVars, sendVars, optVars, buildVars, resVars, clientVars, fetchVars>>

NextIsNull == CallIsNull

SpecIsNull == InitIsNull /\ [][NextIsNull]_vars

\* ------------------------------------------------------------------ parser.py: Field._to_list

\* A bulk string as its parts: the string is lead, then the tokens joined by ';',
\* then ';' when trail is set.
\* int() on the tokens of the alphabet
IntOf == ("0" :> 0) @@ ("1" :> 1) @@ ("2" :> 2) @@ ("3" :> 3) @@ ("5" :> 5) @@ ("99" :> 99)

\* The token without its last character
Chop(t) ==
  CASE t = "145.50" -> "145.5" [] t = "20251215" -> "2025121" [] t = "abc" -> "ab"
    [] t = "bad" -> "ba" [] t = "99" -> "9" [] OTHER -> ""

\* parser.py 339: s[1:-1].split(s[0]) for a string that starts with ';'
Bits(b) ==
  IF b.tokens = <<>> THEN <<"">>
  ELSE IF b.trail THEN b.tokens
  ELSE [b.tokens EXCEPT ![Len(b.tokens)] = Chop(@)]

\* parser.py 366-376. A nested bulk value (type 8) is a token of the split, which holds
\* no ';', so that _to_list returns None for it (parser.py 333-334).
_convert_bulk_field(ftype, t) ==
  CASE ftype \in {1, 4, 11} -> Ok(_to_str(t))
    [] ftype \in {2, 3, 13, 12} -> Ok(_to_number(t))
    [] ftype \in {5, 9} -> to_date(t)
    [] ftype = 6 -> to_time(t)
    [] ftype = 7 -> to_datetime(t)
    [] ftype = 8 -> Ok(None)
    [] ftype = 10 -> Ok(_to_bool(t))
    [] OTHER -> Raise

\* RowItem making a tuple of every row
RowItemAlwaysTuple(cols, item) == Val("tuple", "", item)

\* parser.py 357-360: what a decoded row adds to items
RowItem(cols, item) == IF cols = 1 THEN item[1] ELSE Val("tuple", "", item)

\* OnFailure keeping the values decoded of the row that failed
OnFailureKeepsPartial(items, item) == IF item = <<>> THEN items ELSE Append(items, Val("tuple", "", item))

\* parser.py 361-363: the exception is logged and items is returned as it is
OnFailure(items, item) == items

\* parser.py 353-356: the inner loop from the token at pos, n columns to go
RECURSIVE DecodeRow(_, _, _, _)
DecodeRow(bits, pos, n, item) ==
  IF n <= 0 THEN [ok |-> TRUE, item |-> item, pos |-> pos]
  ELSE IF pos + 1 > Len(bits) \/ bits[pos] \notin DOMAIN IntOf
  THEN [ok |-> FALSE, item |-> item, pos |-> pos]
  ELSE LET r == _convert_bulk_field(IntOf[bits[pos]], bits[pos + 1])
       IN IF ~r.ok THEN [ok |-> FALSE, item |-> item, pos |-> pos]
          ELSE DecodeRow(bits, pos + 2, n - 1, Append(item, r.v))

\* parser.py 352-360: the outer loop, n rows to go
RECURSIVE DecodeRows(_, _, _, _, _)
DecodeRows(bits, pos, n, cols, items) ==
  IF n <= 0 THEN items
  ELSE LET r == DecodeRow(bits, pos, cols, <<>>)
       IN IF ~r.ok THEN OnFailure(items, r.item)
          ELSE DecodeRows(bits, r.pos, n - 1, cols, Append(items, RowItem(cols, r.item)))

\* parser.py 332-363: None for a string that does not start with ';', else the list
Field_to_list(b) ==
  IF b.lead # ";" THEN None
  ELSE LET bits == Bits(b)
           int(n) == n <= Len(bits) /\ bits[n] \in DOMAIN IntOf
       IN IF ~int(1) THEN List(OnFailure(<<>>, <<>>))
          ELSE IF IntOf[bits[1]] \notin {1, 2} \/ ~int(2) THEN List(OnFailure(<<>>, <<>>))
          ELSE IF IntOf[bits[1]] = 1 THEN List(DecodeRows(bits, 3, IntOf[bits[2]], 1, <<>>))
          ELSE IF ~int(3) THEN List(OnFailure(<<>>, <<>>))
          ELSE List(DecodeRows(bits, 4, IntOf[bits[2]], IntOf[bits[3]], <<>>))

\* The bulk strings a caller may pass: a head of counts, up to MaxPairs pairs of a type
\* code and a value, and at times a type code without its value
BulkHeads ==
  {<<>>, <<"1">>, <<"1", "0">>, <<"1", "1">>, <<"1", "2">>, <<"1", "3">>, <<"2", "1", "2">>,
   <<"2", "2", "1">>, <<"2", "1">>, <<"3", "1">>, <<"x", "1">>, <<"1", "x">>, <<"0", "1">>}

BulkPairs ==
  {<<"1", "x">>, <<"3", "145.50">>, <<"3", "abc">>, <<"5", "20251215">>, <<"5", "bad">>,
   <<"99", "x">>}

RECURSIVE Flatten(_)
Flatten(ps) == IF ps = <<>> THEN <<>> ELSE ps[1] \o Flatten(Tail(ps))

BulkInputs ==
  {[lead |-> f[1], trail |-> f[2], tokens |-> h \o Flatten(ps) \o t] :
     f \in {<<";", TRUE>>, <<";", FALSE>>, <<":", TRUE>>},
     h \in BulkHeads,
     ps \in UNION {[1..n -> BulkPairs] : n \in 0..MaxPairs},
     t \in {<<>>, <<"1">>}}

InitToList ==
  /\ ParseIdle /\ SendIdle /\ OptIdle /\ BuildIdle /\ ResIdle /\ ClientIdle /\ FetchIdle
  /\ p_pc = "call" /\ p_out = <<>>
  /\ p_in \in BulkInputs

CallToList ==
  /\ p_pc = "call"
  /\ p_out' = Field_to_list(p_in)
  /\ p_pc' = "done"
  /\ UNCHANGED <<p_in, parseVars, sendVars, optVars, buildVars, resVars, clientVars, fetchVars>>

NextToList == CallToList

SpecToList == InitToList /\ [][NextToList]_vars

\* ------------------------------------------------------------------ request.py: Result.unwrap_single_element_lists

\* A float for which math.isnan or math.isinf holds
NonFinite(val) == val.k = "num" /\ val.s \in {"nan", "inf", "-inf"}

\* The for/else of request.py 143-149 with the first element as val whatever it holds
FirstNonNullTakesFirst(l) == IF l = <<>> THEN None ELSE Head(l)

\* The for/else of request.py 143-149: the first element that is not null, else None
RECURSIVE FirstNonNull(_)
FirstNonNull(l) ==
  IF l = <<>> THEN None
  ELSE IF ~_is_null_value(Head(l)) THEN Head(l) ELSE FirstNonNull(Tail(l))

\* The type of the key, object when the lookup raises
KeyType(key) == LET t == to_type(key) IN IF t.ok THEN t.v ELSE "object"

\* The body of the loop over the keys of a row
UnwrapValue(key, v) ==
  LET val == IF v.k = "list" /\ KeyType(key) # "list" THEN
                IF Len(v.l) = 1 THEN v.l[1]
                ELSE IF Len(v.l) > 1 THEN FirstNonNull(v.l)
                ELSE None
             ELSE v
  IN IF NonFinite(val) THEN None ELSE val

unwrap_single_element_lists(rows) ==
  [i \in 1..Len(rows) |-> [key \in DOMAIN rows[i] |-> UnwrapValue(key, rows[i][key])]]

\* The rows a result may hold: a key of a price field, of a bulk field (in either
\* case) or of no field of the catalog, with a scalar or a list of up to MaxElems elements
UnwrapKeys == {"PX_LAST", "DVD_HIST", "dvd_hist", "MY_FIELD"}

UnwrapScalars == {None, Num("1"), Num("nan"), Num("inf"), Num("-inf"), Str("US")}

UnwrapElements == {None, Str("N.A."), Str("US"), Num("nan"), Num("1")}

UnwrapValues ==
  UnwrapScalars \cup {List(l) : l \in UNION {[1..n -> UnwrapElements] : n \in 0..MaxElems}}

UnwrapRows ==
  {(k :> v) : k \in UnwrapKeys, v \in UnwrapValues}
  \cup {("PX_LAST" :> List(<<Num("nan")>>)) @@ ("DVD_HIST" :> List(<<Num("1"), Num("nan")>>))
          @@ ("MY_FIELD" :> List(<<>>)),
        ("PX_LAST" :> Num("inf")) @@ ("DVD_HIST" :> List(<<Str("US")>>))}

InitUnwrap ==
  /\ ParseIdle /\ SendIdle /\ OptIdle /\ BuildIdle /\ ResIdle /\ ClientIdle /\ FetchIdle
  /\ p_pc = "call" /\ p_out = <<>>
  /\ p_in \in UNION {[1..n -> UnwrapRows] : n \in 0..2}

CallUnwrap ==
  /\ p_pc = "call"
  /\ p_out' = unwrap_single_element_lists(p_in)
  /\ p_pc' = "done"
  /\ UNCHANGED <<p_in, parseVars, sendVars, optVars, buildVars, resVars, clientVars, fetchVars>>

NextUnwrap == CallUnwrap

SpecUnwrap == InitUnwrap /\ [][NextUnwrap]_vars

\* ------------------------------------------------------------------ strings as their characters

\* A str held as the sequence of its characters, for the methods that look inside it
LowerCase == <<"a", "b", "c", "d", "e", "f", "g", "h", "i", "j", "k", "l", "m",
               "n", "o", "p", "q", "r", "s", "t", "u", "v", "w", "x", "y", "z">>
UpperCase == <<"A", "B", "C", "D", "E", "F", "G", "H", "I", "J", "K", "L", "M",
               "N", "O", "P", "Q", "R", "S", "T", "U", "V", "W", "X", "Y", "Z">>

upper_char(c) ==
  IF \E i \in 1..26 : LowerCase[i] = c THEN UpperCase[CHOOSE i \in 1..26 : LowerCase[i] = c] ELSE c
lower_char(c) ==
  IF \E i \in 1..26 : UpperCase[i] = c THEN LowerCase[CHOOSE i \in 1..26 : UpperCase[i] = c] ELSE c

\* str.upper(), str.lower() and str.capitalize()
str_upper(s) == [i \in 1..Len(s) |-> upper_char(s[i])]
str_lower(s) == [i \in 1..Len(s) |-> lower_char(s[i])]
str_capitalize(s) == [i \in 1..Len(s) |-> IF i = 1 THEN upper_char(s[i]) ELSE lower_char(s[i])]

\* str.split(' '): the pieces between the spaces, empty pieces included
RECURSIVE str_split(_)
str_split(s) ==
  IF \A i \in 1..Len(s) : s[i] # " " THEN <<s>>
  ELSE LET i == CHOOSE j \in 1..Len(s) : s[j] = " " /\ \A m \in 1..(j - 1) : s[m] # " "
       IN <<SubSeq(s, 1, i - 1)>> \o str_split(SubSeq(s, i + 1, Len(s)))

\* ' '.join(bits)
RECURSIVE str_join(_)
str_join(bits) ==
  IF bits = <<>> THEN <<>>
  ELSE IF Len(bits) = 1 THEN bits[1]
  ELSE bits[1] \o <<" ">> \o str_join(Tail(bits))

\* str.replace(old, new) for a non-empty old: every occurrence, from the left
RECURSIVE str_replace(_, _, _)
str_replace(s, old, new) ==
  IF Len(s) < Len(old) THEN s
  ELSE IF SubSeq(s, 1, Len(old)) = old
  THEN new \o str_replace(SubSeq(s, Len(old) + 1, Len(s)), old, new)
  ELSE <<Head(s)>> \o str_replace(Tail(s), old, new)

\* request.py 56-57 and parser.py 406-407
YELLOW_KEY_CHARS ==
  {<<"C", "o", "m", "d", "t", "y">>, <<"E", "q", "u", "i", "t", "y">>, <<"M", "u", "n", "i">>,
   <<"P", "f", "d">>, <<"M", "-", "M", "k", "t">>, <<"G", "o", "v", "t">>,
   <<"C", "o", "r", "p">>, <<"I", "n", "d", "e", "x">>, <<"C", "u", "r", "n", "c", "y">>,
   <<"M", "t", "g", "e">>}

\* request.py 229-235: the line written for a ticker given as a str
EmitTicker(iden) ==
  LET bits == str_split(iden)
      origkey == bits[Len(bits)]
      capkey == str_capitalize(origkey)
  IN IF capkey \in YELLOW_KEY_CHARS THEN str_replace(iden, origkey, capkey) ELSE iden

\* python's None among the strings held as characters
NoneC == <<"<None>">>

\* parser.py 412-422 and 424-434
fix_case(ticker) ==
  IF ticker = NoneC \/ ticker = <<>> THEN NoneC
  ELSE IF \A i \in 1..Len(ticker) : ticker[i] # " " THEN str_upper(ticker)
  ELSE LET bits == str_split(ticker)
           n == Len(bits)
       IN str_join([i \in 1..n |-> IF i < n THEN str_upper(bits[i]) ELSE str_capitalize(bits[i])])

is_bb_ticker(ticker) ==
  IF ticker = NoneC \/ ticker = <<>> THEN FALSE
  ELSE LET bits == str_split(ticker)
       IN IF Len(bits) < 2 THEN FALSE ELSE bits[Len(bits)] \in YELLOW_KEY_CHARS

\* The tickers a caller may pass: up to MaxTokens tokens joined by spaces
MaxTokens == 2

TickerTokens ==
  {<<>>, <<"i", "b", "m">>, <<"U", "S">>, <<"8", "8", "r", "A">>,
   <<"c", "o", "r", "p">>, <<"C", "O", "R", "P">>, <<"C", "o", "r", "p">>,
   <<"x", "c", "o", "r", "p">>,
   <<"m", "-", "m", "k", "t">>, <<"M", "-", "M", "K", "T">>, <<"M", "-", "M", "k", "t">>,
   <<"E", "Q", "U", "I", "T", "Y">>, <<"p", "F", "d">>, <<"e", "q", "t", "y">>}

TickerInputs == {str_join(bits) : bits \in UNION {[1..n -> TickerTokens] : n \in 1..MaxTokens}}

\* ------------------------------------------------------------------ request.py: the ticker line of Request.build

InitEmitTicker ==
  /\ ParseIdle /\ SendIdle /\ OptIdle /\ BuildIdle /\ ResIdle /\ ClientIdle /\ FetchIdle
  /\ p_pc = "call" /\ p_out = <<>>
  /\ p_in \in TickerInputs

CallEmitTicker ==
  /\ p_pc = "call"
  /\ p_out' = EmitTicker(p_in)
  /\ p_pc' = "done"
  /\ UNCHANGED <<p_in, parseVars, sendVars, optVars, buildVars, resVars, clientVars, fetchVars>>

NextEmitTicker == CallEmitTicker

SpecEmitTicker == InitEmitTicker /\ [][NextEmitTicker]_vars

\* ------------------------------------------------------------------ parser.py: Ticker.fix_case and Ticker.is_bb_ticker

\* fix_case(t), and fix_case and is_bb_ticker applied to what it returned
InitFixCase ==
  /\ ParseIdle /\ SendIdle /\ OptIdle /\ BuildIdle /\ ResIdle /\ ClientIdle /\ FetchIdle
  /\ p_pc = "call" /\ p_out = <<>>
  /\ p_in \in TickerInputs \cup {NoneC}

CallFixCase ==
  /\ p_pc = "call"
  /\ LET r == fix_case(p_in)
     IN p_out' = [fixed |-> r, again |-> fix_case(r), is_bb |-> is_bb_ticker(r)]
  /\ p_pc' = "done"
  /\ UNCHANGED <<p_in, parseVars, sendVars, optVars, buildVars, resVars, clientVars, fetchVars>>

NextFixCase == CallFixCase

SpecFixCase == InitFixCase /\ [][NextFixCase]_vars

\* ------------------------------------------------------------------ properties of _parse

\* The lines of the data block that carry a RETCODE (flds[1] in the source), those
\* accepted and those rejected, in the order they were read
WithRetcode == SelectSeq(lines, LAMBDA f : Len(f) >= 2)
OkLines == SelectSeq(lines, LAMBDA f : Len(f) >= 2 /\ f[2] = "0")
ErrLines == SelectSeq(lines, LAMBDA f : Len(f) >= 2 /\ f[2] # "0")

\* The columns a line is zipped against, and the keys and raw tokens it gives
ColumnsOf(hist) == (IF hist THEN <<"IDENTIFIER", "RETCODE", "NFIELDS", "DATE">>
                            ELSE <<"IDENTIFIER", "RETCODE", "NFIELDS">>) \o fields
Carries(f, k) == \E i \in 1..Len(f) : i <= Len(ColumnsOf(is_history)) /\ ColumnsOf(is_history)[i] = k
RawOf(f, k) ==
  LET c == ColumnsOf(is_history)
  IN f[CHOOSE i \in 1..Len(f) : i <= Len(c) /\ c[i] = k
                                /\ \A j \in (i + 1)..Len(f) : j <= Len(c) => c[j] # k]
KeysOf(f) == {k \in Range(ColumnsOf(is_history)) : Carries(f, k)}

\* The rows are as the loop left them: no reshaping has replaced them
Flat == pc \in {"data", "reshape"} \/ (pc = "done" /\ ~is_history)

\* C1: every line of the data block whose RETCODE is "0" gives a row of data and no
\* entry of errors; every line with another RETCODE gives exactly one entry of errors,
\* with the identifier and the return code as they were read, and no row of data; no
\* such line makes _parse raise; and a response with lines of both kinds is returned
\* with data and errors both non-empty.
C1_RetcodeRouting ==
  /\ Flat =>
       /\ Len(data) = Len(OkLines)
       /\ \A i \in 1..Len(data) : data[i].val["IDENTIFIER"] = _to_str(OkLines[i][1])
  /\ pc = "done" /\ is_history =>
       /\ \A i \in 1..Len(OkLines) :
            \E j \in 1..Len(data) : data[j].val["IDENTIFIER"] = _to_str(OkLines[i][1])
       /\ \A j \in 1..Len(data) :
            \E i \in 1..Len(OkLines) : data[j].val["IDENTIFIER"] = _to_str(OkLines[i][1])
  /\ pc # "raised" \/ exc # "IndexError" =>
       /\ Len(errors) = Len(ErrLines)
       /\ \A i \in 1..Len(errors) :
            /\ errors[i].val["IDENTIFIER"] = Str(ErrLines[i][1])
            /\ errors[i].val["RETCODE"] = Str(ErrLines[i][2])
  /\ exc = "IndexError" => Len(lines[Len(lines)]) < 2
  /\ (pc = "raised" /\ Len(WithRetcode) = Len(lines)) => exc \in {"BbdlParseError", "KeyError"}
  /\ (pc = "done" /\ OkLines # <<>> /\ ErrLines # <<>>) => (data # <<>> /\ errors # <<>>)

C1_Witness ==
  /\ pc = "done" /\ data # <<>> /\ errors # <<>>
  /\ \E i \in 1..Len(errors) : errors[i].val["RETCODE"] = Str("10")

\* C3 (as claimed): once the input has ended before END-OF-FIELDS or END-OF-DATA was
\* read, _parse has stopped with BbdlParseError.
C3_EndOfInputIsParseError == eof => (pc = "raised" /\ exc = "BbdlParseError")

\* C4: START-OF-FIELDS inside a fields block, END-OF-FIELDS outside one, START-OF-DATA
\* inside a data block and END-OF-DATA outside one each raise BbdlParseError, and after
\* it nothing is returned.
C4_MarkerOrder ==
  [][ /\ (pc = "header" /\ last' = <<"START-OF-FIELDS">> /\ infields)
           => (pc' = "raised" /\ exc' = "BbdlParseError")
      /\ (pc = "header" /\ last' = <<"END-OF-FIELDS">> /\ ~infields)
           => (pc' = "raised" /\ exc' = "BbdlParseError")
      /\ (pc = "data" /\ last' = <<"START-OF-DATA">> /\ indata)
           => (pc' = "raised" /\ exc' = "BbdlParseError")
      /\ (pc = "data" /\ last' = <<"END-OF-DATA">> /\ ~indata)
           => (pc' = "raised" /\ exc' = "BbdlParseError")
      /\ pc = "raised" => pc' = "raised" ]_vars

C4_Witness ==
  /\ pc = "raised" /\ exc = "BbdlParseError"
  /\ last = <<"START-OF-DATA">> /\ indata

\* C5: in the row of a line with RETCODE "0", a field whose conversion fails is null,
\* every other field has its converted value, the row is in data, and columns has an
\* entry for every field of the row, with the object placeholder where the type
\* lookup fails.
C5_FieldFailureIsNull ==
  Flat =>
    /\ Len(data) = Len(OkLines)
    /\ \A i \in 1..Len(data) :
         /\ Range(data[i].keys) = KeysOf(OkLines[i])
         /\ \A k \in KeysOf(OkLines[i]) :
              LET r == to_python(k, RawOf(OkLines[i], k), TRUE)
                  t == to_type(k)
              IN /\ ~r.ok => data[i].val[k] = None
                 /\ r.ok => data[i].val[k] = r.v
                 /\ <<k, IF t.ok THEN t.v ELSE "object">> \in Range(columns)

C5_Witness ==
  /\ pc = "done" /\ ~is_history
  /\ \E i \in 1..Len(data) :
       /\ {"BOGUS", "PX_LAST"} \subseteq Range(data[i].keys)
       /\ data[i].val["BOGUS"] = None
       /\ data[i].val["PX_LAST"].k = "num"
  /\ <<"BOGUS", "object">> \in Range(columns)

\* C6 (as claimed): no data line, however few tokens it has, makes _parse raise.
C6_ShortLineNeverRaises == ~(pc = "raised" /\ exc = "IndexError")

\* The identifiers of the accepted lines as the rows hold them, in first-seen order,
\* and the accepted lines of one identifier in line order
Identifiers == unique([i \in 1..Len(OkLines) |-> _to_str(OkLines[i][1])])
LinesOf(id) == SelectSeq(OkLines, LAMBDA f : _to_str(f[1]) = id)
SeriesOf(id, k) ==
  LET ls == SelectSeq(LinesOf(id), LAMBDA f : Carries(f, k))
  IN [i \in 1..Len(ls) |-> Convert(k, RawOf(ls[i], k), TRUE)]

\* C7: a historical response is returned as one row per identifier of the accepted
\* lines, in first-seen order; IDENTIFIER, RETCODE and NFIELDS are the scalars of the
\* identifier's first line, and every other field, DATE included, is the sequence of
\* the field's values over the identifier's lines, in line order.
C7_HistoryReshape ==
  (pc = "done" /\ is_history) =>
    /\ Len(data) = Len(Identifiers)
    /\ \A j \in 1..Len(data) :
         LET first == LinesOf(Identifiers[j])[1]
         IN /\ data[j].val["IDENTIFIER"] = Identifiers[j]
            /\ Range(data[j].keys) = KeysOf(first)
            /\ \A k \in KeysOf(first) :
                 IF k \in {"IDENTIFIER", "RETCODE", "NFIELDS"}
                 THEN data[j].val[k] = Convert(k, RawOf(first, k), TRUE)
                 ELSE data[j].val[k] = List(SeriesOf(Identifiers[j], k))

C7_Witness ==
  /\ pc = "done" /\ is_history /\ Len(data) = 2 /\ Len(lines) = 3
  /\ _to_str(lines[1][1]) = _to_str(lines[3][1])
  /\ _to_str(lines[1][1]) # _to_str(lines[2][1])
  /\ "DATE" \in Range(data[1].keys)
  /\ data[1].val["DATE"].l = <<DateV("20251216"), DateV("20251215")>>

\* C8 (as claimed): in every row of a historical result every field that is no status
\* field is a sequence as long as the row's DATE sequence, and that is the number of
\* accepted lines of the row's identifier.
C8_SeriesAligned ==
  (pc = "done" /\ is_history) =>
    \A j \in 1..Len(data) : \A k \in Range(data[j].keys) \ Range(STATUS_FIELDS) :
      /\ "DATE" \in Range(data[j].keys)
      /\ Len(data[j].val[k].l) = Len(data[j].val["DATE"].l)
      /\ Len(data[j].val[k].l) = Len(LinesOf(data[j].val["IDENTIFIER"]))

\* The accepted lines of the identifier all carry the same number of tokens, DATE among them
Uniform(id) == \A f \in Range(LinesOf(id)) : Len(f) >= 4 /\ Len(f) = Len(LinesOf(id)[1])

\* C8 (amended): the same, for the rows of the identifiers whose accepted lines all
\* carry the same number of tokens, DATE among them.
C8_SeriesAlignedWhenUniform ==
  (pc = "done" /\ is_history) =>
    \A j \in 1..Len(data) :
      Uniform(data[j].val["IDENTIFIER"]) =>
        \A k \in Range(data[j].keys) \ Range(STATUS_FIELDS) :
          /\ "DATE" \in Range(data[j].keys)
          /\ Len(data[j].val[k].l) = Len(data[j].val["DATE"].l)
          /\ Len(data[j].val[k].l) = Len(LinesOf(data[j].val["IDENTIFIER"]))

C8_Witness ==
  /\ pc = "done" /\ is_history
  /\ \E j \in 1..Len(data) :
       /\ Uniform(data[j].val["IDENTIFIER"])
       /\ "PX_LAST" \in Range(data[j].keys)
       /\ Len(data[j].val["PX_LAST"].l) = 2
       /\ Len(data[j].val["DATE"].l) = 2

\* C9: a response without the history marker is returned with one row per accepted
\* line, in line order, lines of the same identifier included, and no value of a field
\* that is not bulk-typed is a sequence.
C9_NoReshapeWithoutHistory ==
  (pc = "done" /\ ~is_history) =>
    /\ Len(data) = Len(OkLines)
    /\ \A i \in 1..Len(data) :
         /\ data[i].val["IDENTIFIER"] = _to_str(OkLines[i][1])
         /\ \A k \in Range(data[i].keys) : to_type(k).v # "list" => data[i].val[k].k # "list"

C9_Witness ==
  /\ pc = "done" /\ ~is_history /\ Len(data) = 2
  /\ data[1].val["IDENTIFIER"] = data[2].val["IDENTIFIER"]
  /\ "PX_LAST" \in Range(data[1].keys) /\ data[1].val["PX_LAST"].k = "num"

\* ------------------------------------------------------------------ properties of Request.send

Count(s, x) == Cardinality({n \in 1..Len(s) : s[n] = x})

\* C2: when no listing holds a name ending with the response name, send raises
\* BbdlTimeoutError after exactly wait_time*6 listings, whatever wait_time >= 0 is,
\* and has downloaded nothing.
C2_TimeoutAfterAllPolls ==
  /\ s_pc = "timeout" =>
       /\ Count(ops, "list") = sendopt.wait_time * 6
       /\ Count(ops, "list_found") = 0
       /\ Count(ops, "get") = 0
       /\ local = {}
  /\ Count(ops, "list_found") = 0 =>
       /\ s_pc \in {"delete", "put", "loop", "list", "timeout"}
       /\ Count(ops, "list") <= sendopt.wait_time * 6
       /\ (s_pc = "loop" /\ Count(ops, "list") = sendopt.wait_time * 6) => ~ENABLED Sleep

C2_Witness ==
  /\ s_pc = "timeout" /\ sendopt.wait_time = 2
  /\ Count(ops, "list") = 12 /\ Count(ops, "sleep") = 12

\* ------------------------------------------------------------------ properties of BbdlOptions

\* C10: a programflag other than 'adhoc' and 'oneshot' makes the constructor raise
\* BbdlValidationError, and no object is made of it; the flag of an object that was
\* made is the flag given.
C10_ProgramflagValidated ==
  o_pc \in {"ok", "raised"} =>
    /\ o_args.programflag \notin {"adhoc", "oneshot"} =>
         (o_pc = "raised" /\ o_exc[1] = "BbdlValidationError")
    /\ o_pc = "ok" => options.programflag = o_args.programflag

C10_Witness ==
  /\ o_pc = "raised" /\ o_args.programflag = "ADHOC"
  /\ o_exc[1] = "BbdlValidationError"

C12_OpenNeedsSnAndWs ==
  (o_pc \in {"ok", "raised"} /\ ~o_args.is_bba
     /\ (Truthy(o_args.sn) \/ Truthy(o_args.ws) \/ Truthy(o_args.usernumber))) =>
    /\ ~(Truthy(o_args.sn) /\ Truthy(o_args.ws)) =>
         /\ o_pc = "raised" /\ o_exc[1] = "BbdlValidationError"
         /\ o_args.programflag \in {"adhoc", "oneshot"} =>
              /\ Truthy(o_args.sn) => o_exc[2] = "WS must be provided for terminal linking"
              /\ ~Truthy(o_args.sn) => o_exc[2] = "SN must be provided for terminal linking"
    /\ (Truthy(o_args.sn) /\ Truthy(o_args.ws) /\ o_args.programflag \in {"adhoc", "oneshot"}) =>
         /\ o_pc = "ok"
         /\ options.sn = o_args.sn /\ options.ws = o_args.ws

C12_Witness ==
  /\ o_pc = "raised" /\ ~o_args.is_bba /\ o_args.programflag = "oneshot"
  /\ o_args.sn = "123" /\ o_args.ws = "" /\ o_args.usernumber = "6789"
  /\ o_exc = <<"BbdlValidationError", "WS must be provided for terminal linking">>

\* ------------------------------------------------------------------ properties of Request.build

\* The shapes of an identifier
BareTicker(iden) == ~iden.seq
Pair(iden) == iden.seq /\ Len(iden.el) = 2
Override(iden) == iden.seq /\ Len(iden.el) > 3 /\ Len(iden.el) % 2 = 0
NoNone(iden) == \A j \in 1..Len(iden.el) : iden.el[j] # NoneS

\* The request is historical: a begin or an end date is set
Hist(o) == o.begdate # NoDate \/ o.enddate # NoDate

NonBlank(f) == SelectSeq(f, LAMBDA l : l # "")

\* The lines of the file between START-OF-DATA and END-OF-DATA
DataBlock ==
  LET a == CHOOSE i \in 1..Len(b_file) :
             b_file[i] = "START-OF-DATA" /\ \A j \in 1..(i - 1) : b_file[j] # "START-OF-DATA"
      z == CHOOSE i \in 1..Len(b_file) :
             b_file[i] = "END-OF-DATA" /\ \A j \in (i + 1)..Len(b_file) : b_file[j] # "END-OF-DATA"
  IN SubSeq(b_file, a + 1, z - 1)

\* C13 (as claimed): every identifier the loop has read that is no bare ticker string,
\* no 2-element pair and no sequence of even length greater than 3 has made build
\* raise BbdlValidationError, citing that identifier.
C13_BadShapeIsValidationError ==
  \A i \in 1..Len(b_identifiers) :
    LET iden == b_identifiers[i]
    IN ~(BareTicker(iden) \/ Pair(iden) \/ Override(iden)) =>
         (b_pc = "raised" /\ b_exc = <<"BbdlValidationError", iden>>)

\* 'k1|v1|...' from position j of the elements on
RECURSIVE Rest(_, _)
Rest(el, j) == IF j > Len(el) THEN "" ELSE "|" \o el[j] \o Rest(el, j + 1)

Numeral(n) == CASE n = 1 -> "1" [] n = 2 -> "2" [] n = 3 -> "3" [] OTHER -> "?"

\* C14: a completed build has written one line per identifier, in caller order, between
\* START-OF-DATA and END-OF-DATA; the line of a 2-element (value,type) pair is
\* 'value|type' and the line of an override sequence of even length L > 3 is
\* 'value|type|N|k1|v1|...|kN|vN' with N = (L-2)/2, the elements in their given order.
C14_IdentifierLines ==
  b_pc = "done" =>
    /\ Len(DataBlock) = Len(b_identifiers)
    /\ \A i \in 1..Len(b_identifiers) :
         LET iden == b_identifiers[i]
             el == iden.el
             L == Len(el)
         IN /\ (Pair(iden) /\ NoNone(iden)) => DataBlock[i] = el[1] \o "|" \o el[2]
            /\ (Override(iden) /\ NoNone(iden)) =>
                 DataBlock[i] = el[1] \o "|" \o el[2] \o "|" \o Numeral((L - 2) \div 2) \o Rest(el, 3)
            /\ iden = Tuple(<<"88160RAG6", "CUSIP", "K1", "V1">>) =>
                 DataBlock[i] = "88160RAG6|CUSIP|1|K1|V1"

C14_Witness ==
  /\ b_pc = "done"
  /\ b_identifiers = <<Tuple(<<"88160RAG6", "CUSIP", "K1", "V1", "K2", "V2">>),
                       Tuple(<<"88160RAG6", "CUSIP">>)>>
  /\ DataBlock = <<"88160RAG6|CUSIP|2|K1|V1|K2|V2", "88160RAG6|CUSIP">>

\* The blocks of the file as the claims name them
HeaderBlockOf(o) ==
  IF o.bval
  THEN <<"START-OF-FILE", "FIRMNAME=None", "DERIVED=yes", "DELIMITER=|",
         "PRICING_SOURCE=BVAL:NY4PM", "SECMASTER=yes", "PROGRAMNAME=getdata">>
  ELSE <<"START-OF-FILE", "FIRMNAME=None", "PROGRAMFLAG=adhoc", "DELIMITER=|",
         "ADJUSTED=yes", "DATEFORMAT=yyyymmdd">>

DateRangeOf(o) ==
  CASE o.begdate # NoDate /\ o.enddate # NoDate -> "DATERANGE=20251215|20251216"
    [] o.begdate # NoDate /\ o.enddate = NoDate -> "DATERANGE=20251215|20251215"
    [] OTHER -> "DATERANGE=?|20251216"

DirectivesOf(o) ==
  IF Hist(o) THEN <<"PROGRAMNAME=gethistory", "HIST_FORMAT=horizontal", DateRangeOf(o)>>
  ELSE <<"SECMASTER=yes", "CLOSINGVALUES=yes", "DERIVED=yes">>

TerminalBlocks == {<<>>, <<"USERNUMBER=6789">>, <<"USERNUMBER=6789", "SN=123", "WS=45">>}

\* The non-blank lines of the file are the blocks in their order, with c in the place
\* of the compression directive and t in the place of the terminal-linking block
Layout(c, t) ==
  LET o == b_entry
      nb == NonBlank(b_file)
      head == HeaderBlockOf(o) \o o.headers \o DirectivesOf(o) \o c \o t
              \o <<"START-OF-FIELDS">> \o b_fields \o <<"END-OF-FIELDS", "START-OF-DATA">>
  IN /\ Len(nb) = Len(head) + Len(b_identifiers) + 2
     /\ SubSeq(nb, 1, Len(head)) = head
     /\ SubSeq(nb, Len(nb) - 1, Len(nb)) = <<"END-OF-DATA", "END-OF-FILE">>
     /\ b_file[Len(b_file)] = "END-OF-FILE"

\* C15 (as claimed): the file of a completed build is, in this order, the header block
\* of the mode, the caller's headers, the directives, COMPRESS=yes, the terminal-linking
\* block, the bracketed fields in caller order, the bracketed identifier lines and
\* END-OF-FILE; and it holds COMPRESS=yes once when options.compressed is set and not
\* at all when it is not.
C15_FileLayout ==
  b_pc = "done" =>
    /\ \E c \in {<<>>, <<"COMPRESS=yes">>} : \E t \in TerminalBlocks : Layout(c, t)
    /\ Count(b_file, "COMPRESS=yes") = IF b_entry.compressed THEN 1 ELSE 0

\* C15 (amended): the same order, where build writes COMPRESS=yes after the directives
\* exactly when options.compressed is set and the caller's headers do not hold that
\* line; so the file holds the line when compressed is set or the caller gave it, and
\* build never adds a second one.
C15_FileLayoutCompressOnce ==
  b_pc = "done" =>
    LET given == "COMPRESS=yes" \in Range(b_entry.headers)
        c == IF b_entry.compressed /\ ~given THEN <<"COMPRESS=yes">> ELSE <<>>
    IN /\ \E t \in TerminalBlocks : Layout(c, t)
       /\ Count(b_file, "COMPRESS=yes") =
            (IF given THEN Count(b_entry.headers, "COMPRESS=yes") ELSE Len(c))
       /\ (Count(b_file, "COMPRESS=yes") > 0) = (b_entry.compressed \/ given)

C15_Witness ==
  /\ b_pc = "done" /\ b_entry.compressed /\ b_entry.headers = <<"COMPRESS=yes">>
  /\ b_entry.bval /\ b_entry.begdate # NoDate
  /\ b_fields = <<"dvd_hist", "PX_LAST">> /\ Len(b_identifiers) = 2
  /\ Count(b_file, "COMPRESS=yes") = 1
  /\ b_file[8] = "COMPRESS=yes" /\ b_file[9] = "PROGRAMNAME=gethistory"

\* C16 (as claimed): with begdate or enddate set, either alone or both, build does not
\* stop before it writes, and the file has the historical block, DATERANGE holding the
\* begin and the end date as YYYYMMDD and a missing end date taken from the begin date,
\* and none of the non-historical directives; with neither set the file has
\* SECMASTER=yes, CLOSINGVALUES=yes and DERIVED=yes and no history directive.
C16_HistoryBlock ==
  b_pc \notin {"start", "open"} =>
    LET o == b_entry
        written == b_pc \in {"fields", "data", "done"} \/ (b_pc = "raised" /\ b_exc[1] = "ValueError")
        at == Len(HeaderBlockOf(o)) + Len(o.headers)
    IN /\ written
       /\ SubSeq(b_file, at + 1, at + 3) = DirectivesOf(o)
       /\ Hist(o) => /\ o.begdate # NoDate
                     /\ Count(b_file, "CLOSINGVALUES=yes") = 0
       /\ ~Hist(o) => /\ Count(b_file, "PROGRAMNAME=gethistory") = 0
                      /\ Count(b_file, "HIST_FORMAT=horizontal") = 0

\* The lines of a terminal-linking block
TerminalLines ==
  SelectSeq(b_file, LAMBDA l : l \in {"USERNUMBER=6789", "USERNUMBER=None", "SN=123", "SN=None",
                                      "WS=45", "WS=None"})

\* C17 (as claimed): the file has a terminal-linking block exactly when sn, ws or
\* usernumber is set: USERNUMBER alone in BBA mode, USERNUMBER, SN and WS in open
\* mode, and none of these lines when no linking field is set.
C17_TerminalBlockByMode ==
  b_pc \in {"fields", "data", "done"} =>
    LET o == b_entry
        active == o.sn \notin {NoneS, ""} \/ o.ws \notin {NoneS, ""} \/ o.usernumber \notin {NoneS, ""}
    IN /\ ~active => TerminalLines = <<>>
       /\ (active /\ o.is_bba) => TerminalLines = <<"USERNUMBER=6789">>
       /\ (active /\ ~o.is_bba) =>
            /\ Len(TerminalLines) = 3
            /\ TerminalLines[1] \in {"USERNUMBER=6789", "USERNUMBER=None"}
            /\ TerminalLines[2] = "SN=123" /\ TerminalLines[3] = "WS=45"

\* The field names of the list have no surrounding whitespace and none is a section marker
Plain(flds) ==
  \A i \in 1..Len(flds) :
    flds[i] \notin {"PX_LAST ", "START-OF-FILE", "END-OF-FILE", "START-OF-FIELDS", "END-OF-FIELDS",
                    "START-OF-DATA", "END-OF-DATA"}

\* C18: for a field list of names without surrounding whitespace, none of them a section
\* marker, and no caller headers, the header scan of the decoder over the file build
\* has written ends at END-OF-FIELDS with the same field names in the same order, and
\* with is_history set exactly when the request had a begin or an end date.
C18_HeaderRoundTrip ==
  (b_pc = "done" /\ pc # "idle" /\ b_entry.headers = <<>> /\ Plain(b_fields)) =>
    /\ pc = "data" /\ exc = "none"
    /\ fields = b_fields
    /\ is_history = Hist(b_entry)

C18_Witness ==
  /\ b_pc = "done" /\ pc = "data" /\ b_entry.headers = <<>>
  /\ b_entry.begdate # NoDate /\ b_entry.enddate = NoDate
  /\ fields = <<"dvd_hist", "PX_LAST">> /\ is_history

\* ------------------------------------------------------------------ properties of Result

\* The mnemonics of a list of columns
Mnemonics(cols) == [i \in 1..Len(cols) |-> cols[i][1]]

FirstAt(s, x) == CHOOSE i \in 1..Len(s) : s[i] = x /\ \A j \in 1..(i - 1) : s[j] # x

\* names holds each element of log once, in the order of their first places in log
FirstSeenOrder(names, log) ==
  /\ \A i, j \in 1..Len(names) : names[i] = names[j] => i = j
  /\ Range(names) = Range(log)
  /\ \A i, j \in 1..Len(names) : i < j => FirstAt(log, names[i]) < FirstAt(log, names[j])

\* C19: after self.extend(other), data is the old data followed by other's data and
\* errors the old errors followed by other's errors; and after extending with an empty
\* Result, data and errors are what they were, the list read from columns is what
\* would have been read before, and _columns is untouched until it is read.
C19_ExtendConcatenates ==
  r_before # <<>> =>
    LET old == r_before.self
        other == r_before.other
    IN /\ r_self.data = old.data \o other.data
       /\ r_self.errors = old.errors \o other.errors
       /\ (other.data = <<>> /\ other.errors = <<>> /\ other._columns = <<>>) =>
            /\ r_self.data = old.data /\ r_self.errors = old.errors
            /\ Mnemonics(Result_columns(r_self)._columns) = Mnemonics(Result_columns(old)._columns)
            /\ r_self._columns \in {old._columns, Result_columns(old)._columns}

C19_Witness ==
  /\ r_before # <<>> /\ r_pc = "parse"
  /\ Len(r_before.self.data) = 1 /\ Len(r_before.self.errors) = 1
  /\ Len(r_before.other.data) = 1 /\ Len(r_before.other.errors) = 1
  /\ Len(r_self.data) = 2 /\ Len(r_self.errors) = 2
  /\ r_self.data[2] = r_before.other.data[1]

\* C20: the list read from Result.columns, of the accumulating Result and of the Result
\* of a response, holds each mnemonic once, and the mnemonics are in the order in
\* which they were first recorded.
C20_ColumnsUniqueInOrder ==
  /\ FirstSeenOrder(Mnemonics(Result_columns(r_self)._columns), r_log.self)
  /\ r_pc = "extend" => FirstSeenOrder(Mnemonics(Result_columns(r_other)._columns), r_log.other)

C20_Witness ==
  /\ r_log.parts = 2 /\ r_pc = "parse"
  /\ Len(r_self._columns) > Len(Result_columns(r_self)._columns)
  /\ Mnemonics(Result_columns(r_self)._columns)
       = <<"IDENTIFIER", "RETCODE", "NFIELDS", "PX_LAST", "dvd_hist">>

\* C30: every BbdlOptions object whose construction succeeded has one linking mode
\* or none: none of sn, ws, usernumber is set; or the BBA flag is set, usernumber is
\* non-empty and sn and ws are both empty; or the BBA flag is not set and sn and ws
\* are both non-empty.
C30_LinkingInvariant ==
  o_pc = "ok" =>
    \/ (options.sn \in {NoneS, ""} /\ options.ws \in {NoneS, ""}
          /\ options.usernumber \in {NoneS, ""})
    \/ (options.is_bba /\ options.usernumber \notin {NoneS, ""}
          /\ options.sn \in {NoneS, ""} /\ options.ws \in {NoneS, ""})
    \/ (~options.is_bba /\ options.sn \notin {NoneS, ""} /\ options.ws \notin {NoneS, ""})

C30_Witness ==
  /\ o_pc = "ok" /\ o_args.is_bba /\ o_args.sn = "123" /\ o_args.ws = "45"
  /\ o_args.usernumber = "6789"
  /\ options.sn = NoneS /\ options.ws = NoneS /\ options.usernumber = "6789"

\* ------------------------------------------------------------------ more properties of Request.send

\* C28: send issues its transport calls in this order: one delete of the response
\* name, then one upload of the request file, then rounds of a sleep followed by a
\* listing, then at most one download, which comes directly after a listing that held
\* a matching name and is the last call; a delete that failed is followed by the
\* upload and the polling all the same.
C28_CallOrder ==
  /\ s_pc # "delete" => (Len(ops) >= 1 /\ ops[1] \in {"delete", "delete_failed"})
  /\ s_pc \notin {"delete", "put"} => (Len(ops) >= 2 /\ ops[2] = "put")
  /\ \A n \in 1..Len(ops) :
       /\ ops[n] \in {"delete", "delete_failed"} => n = 1
       /\ ops[n] = "put" => n = 2
       /\ ops[n] = "sleep" => (n >= 3 /\ ops[n - 1] \in {"put", "list"})
       /\ ops[n] \in {"list", "list_found"} => (n >= 4 /\ ops[n - 1] = "sleep")
       /\ ops[n] = "list_found" => (n = Len(ops) \/ (n = Len(ops) - 1 /\ ops[n + 1] = "get"))
       /\ ops[n] = "get" => (n = Len(ops) /\ ops[n - 1] = "list_found")
  /\ s_pc \in {"done", "unzip"} => Count(ops, "get") = 1
  /\ s_pc = "timeout" => Count(ops, "get") = 0

C28_Witness ==
  /\ s_pc = "done" /\ ops[1] = "delete_failed" /\ ops[2] = "put"
  /\ Count(ops, "sleep") = 3 /\ Count(ops, "list") = 2 /\ Count(ops, "list_found") = 1
  /\ ops[Len(ops)] = "get"

\* C29: the response name of send carries '.gz' exactly when options.compressed is set
\* or begdate or enddate is set: that is the name deleted, looked for in the listing
\* and downloaded; the download is decompressed under the same condition, and a send
\* that succeeded leaves the response at the original path and no local '.gz' file.
C29_GzSuffix ==
  [][LET cond == sendopt.compressed \/ sendopt.begdate # NoneS \/ sendopt.enddate # NoneS
         name == [pre |-> "", base |-> "fprp00.out", ext |-> IF cond THEN ".gz" ELSE ""]
         plain == [pre |-> "", base |-> "fprp00.out", ext |-> ""]
     IN /\ (s_pc = "delete" /\ ops' = <<"delete">>) => remote' = remote \ {name}
        /\ (s_pc = "list" /\ s_pc' = "get") =>
             \E f \in remote : f.base = name.base /\ f.ext = name.ext
        /\ (s_pc = "get" /\ s_pc' \notin {"get", "failed"}) =>
             /\ name \in remote /\ local' = local \cup {name}
             /\ (s_pc' = "unzip") = cond
        /\ (s_pc # "done" /\ s_pc' = "done") =>
             /\ (s_pc = "unzip") = cond
             /\ local' = {plain}]_vars

C29_Witness ==
  /\ s_pc = "done" /\ ~sendopt.compressed /\ sendopt.begdate = NoneS
  /\ sendopt.enddate = "20251216"
  /\ local = {[pre |-> "", base |-> "fprp00.out", ext |-> ""]}
  /\ [pre |-> "", base |-> "fprp00.out", ext |-> ".gz"] \in remote

\* C22: when the caller asks for the wait to be given up while send waits for the
\* response, send makes no further poll: it neither sleeps nor lists again, and
\* surfaces a timeout before its wait_time*6 attempts are used up.
C22_PollLoopCancellable ==
  [][(cancelled /\ s_pc = "loop" /\ poll_i < sendopt.wait_time * 6) =>
       (ops' = ops /\ s_pc' \in {"loop", "timeout"})]_vars

\* ------------------------------------------------------------------ properties of SFTPClient.request

\* C21: when send has used up its polls for part k, request ends with
\* BbdlTimeoutError: the request file of part k was uploaded once, nothing was built,
\* uploaded, polled or downloaded for a later part, and a request that has ended
\* takes no further step.
C21_TimeoutEndsRequest ==
  [][/\ c_pc \notin {"raised", "returned"}
     /\ (c_pc = "send" /\ s_pc = "timeout") =>
          /\ c_pc' = "raised" /\ c_exc' = "BbdlTimeoutError" /\ s_pc' = "idle"
          /\ Count(c_log', <<"put", c_part>>) = 1
          /\ Count(c_log', <<"get", c_part>>) = 0
          /\ Count(c_log', <<"list", c_part>>) = sendopt.wait_time * 6
          /\ \A n \in 1..Len(c_log') : c_log'[n][2] <= c_part
          /\ c_log'[Len(c_log')][2] = c_part]_vars

C21_Witness ==
  /\ c_pc = "raised" /\ c_exc = "BbdlTimeoutError" /\ c_part = 0 /\ c_args.nfields = 501
  /\ Count(c_log, <<"put", 0>>) = 1 /\ Count(c_log, <<"list", 0>>) = 6
  /\ Count(c_log, <<"build", 0>>) = 1 /\ Count(c_log, <<"build", 1>>) = 0

\* ------------------------------------------------------------------ properties of _fetch_by_date

\* The file at place n ends in '.out' and its header gives the date d as RUNDATE
Dated(n, d) ==
  /\ f_remote[n].ext = ".out"
  /\ \E k \in 1..Len(f_remote[n].content) :
       /\ f_remote[n].content[k] = <<"RUNDATE", d>>
       /\ \A j \in 1..(k - 1) : f_remote[n].content[j][1] \notin {"RUNDATE", "START-OF-FIELDS"}

\* The places of the '.out' files up to place m, in listing order
OutUpTo(m) == SelectSeq([n \in 1..m |-> n], LAMBDA n : f_remote[n].ext = ".out")

NullStrings ==
  {"", "  ", "N.A.", "N.D.", "N.S.", "NaN", "None", "UNSPEC", "BEFORE MKT", "AFTER MKT",
   "  N.A.  ", " n.a. ", "n.a.", "nan", "unspec"}

RECURSIVE NullLike(_)
NullLike(v) ==
  \/ v.k = "none"
  \/ v.k = "str" /\ v.s \in NullStrings
  \/ v.k = "list" /\ \A i \in 1..Len(v.l) : NullLike(v.l[i])

\* C23: _is_null(v) is true exactly when v is None, an empty string, a string that
\* trimmed equals one of the eight sentinels without regard to case, an empty
\* sequence, or a sequence whose elements are all null in turn; it is false for the
\* numbers 0 and 0.0.
C23_IsNull ==
  p_pc = "done" => (p_out = NullLike(p_in))

\* ------------------------------------------------------------------ properties of Field._to_list

\* The counts and the pairs of the alphabet as the bulk grammar reads them: a count is
\* a numeral; a pair is a type code of the table and a value, with what it decodes to.
\* A value that is no number decodes to null under a number code (parser.py 286-302).
Counts == ("0" :> 0) @@ ("1" :> 1) @@ ("2" :> 2) @@ ("3" :> 3) @@ ("5" :> 5) @@ ("99" :> 99)

Decoded ==
  (<<"1", "x">> :> Str("x")) @@ (<<"3", "145.50">> :> Num("145.50"))
  @@ (<<"5", "20251215">> :> DateV("20251215")) @@ (<<"3", "abc">> :> None)

\* The head of a bulk string is there: dimensionality 1 or 2, the rows, and the columns
\* when the dimensionality is 2
HasHead(t) ==
  /\ Len(t) >= 2 /\ t[1] \in {"1", "2"} /\ t[2] \in DOMAIN Counts
  /\ t[1] = "2" => (Len(t) >= 3 /\ t[3] \in DOMAIN Counts)

HeadLen(t) == IF t[1] = "2" THEN 3 ELSE 2
RowsOf(t) == Counts[t[2]]
ColsOf(t) == IF t[1] = "2" THEN Counts[t[3]] ELSE 1
PairAt(t, j) == <<t[HeadLen(t) + 2 * j - 1], t[HeadLen(t) + 2 * j]>>
GoodPair(t, j) == HeadLen(t) + 2 * j <= Len(t) /\ PairAt(t, j) \in DOMAIN Decoded

\* The item of row i: a scalar for one column, else the tuple of the row's values
ItemOf(t, i) ==
  IF ColsOf(t) = 1 THEN Decoded[PairAt(t, i)]
  ELSE Val("tuple", "", [j \in 1..ColsOf(t) |-> Decoded[PairAt(t, (i - 1) * ColsOf(t) + j)]])

C25_BulkFailureContained ==
  p_pc = "done" =>
    /\ p_out.k = (IF p_in.lead = ";" THEN "list" ELSE "none")
    /\ (p_in.lead = ";" /\ p_in.trail) =>
         LET t == p_in.tokens
         IN IF ~HasHead(t) THEN p_out.l = <<>>
            ELSE LET full == {k \in 0..Min(RowsOf(t), Len(t)) :
                                \A j \in 1..(k * ColsOf(t)) : GoodPair(t, j)}
                     n == CHOOSE k \in full : \A m \in full : m <= k
                 IN /\ Len(p_out.l) = n
                    /\ \A i \in 1..n : p_out.l[i] = ItemOf(t, i)

C25_Witness ==
  /\ p_pc = "done" /\ p_in.lead = ";" /\ p_in.trail
  /\ p_in.tokens = <<"2", "2", "1", "1", "x", "5", "bad">>
  /\ p_out = List(<<Str("x")>>)

\* ------------------------------------------------------------------ properties of unwrap_single_element_lists

\* The key names a field of the catalog whose type is the bulk format
SequenceTyped(key) ==
  \E f \in DOMAIN all_fields : f = Upper(key) /\ all_fields[f] = "Bulk Format"

\* The positions of the elements of l that are not null
NonNullAt(l) == {j \in 1..Len(l) : ~_is_null_value(l[j])}

\* What the claim announces for the value v under the key, before non-finite numbers are nulled
Collapsed(key, v) ==
  IF v.k = "list" /\ ~SequenceTyped(key) THEN
     CASE Len(v.l) = 0 -> None
       [] Len(v.l) = 1 -> v.l[1]
       [] OTHER -> IF NonNullAt(v.l) = {} THEN None
                   ELSE v.l[CHOOSE j \in NonNullAt(v.l) : \A m \in NonNullAt(v.l) : j <= m]
  ELSE v

\* C26: after unwrap_single_element_lists, for every row and every key whose declared
\* type is not sequence-typed, a one-element list is replaced by its element, a longer
\* list by its first non-null element (null when all are null) and an empty list by null;
\* the values of bulk fields and the scalars are left as they were; a value that ends up
\* a non-finite number is null. The rows and their keys are the same.
C26_Unwrap ==
  p_pc = "done" /\ p_in \in Seq(UnwrapRows) =>
    /\ Len(p_out) = Len(p_in)
    /\ \A i \in 1..Len(p_in) :
         /\ DOMAIN p_out[i] = DOMAIN p_in[i]
         /\ \A key \in DOMAIN p_in[i] :
              LET e == Collapsed(key, p_in[i][key])
              IN p_out[i][key] = IF e.k = "num" /\ e.s \in {"nan", "inf", "-inf"} THEN None ELSE e

C26_Witness ==
  /\ p_pc = "done"
  /\ p_in = <<("MY_FIELD" :> List(<<Str("N.A."), Str("US")>>)),
              ("PX_LAST" :> List(<<Num("nan")>>)) @@ ("DVD_HIST" :> List(<<Num("1"), Num("nan")>>))
                @@ ("MY_FIELD" :> List(<<>>))>>
  /\ p_out = <<("MY_FIELD" :> Str("US")),
               ("PX_LAST" :> None) @@ ("DVD_HIST" :> List(<<Num("1"), Num("nan")>>))
                 @@ ("MY_FIELD" :> None)>>

\* ------------------------------------------------------------------ properties of the ticker line and of Ticker

\* The yellow keys the token matches when case is ignored
KeysMatching(token) == {k \in YELLOW_KEY_CHARS : str_lower(k) = str_lower(token)}

\* The ticker with its last token replaced by the key, every other character kept
WithLastToken(t, key) ==
  LET bits == str_split(t)
  IN str_join([i \in 1..Len(bits) |-> IF i = Len(bits) THEN key ELSE bits[i]])

LastToken(t) == LET bits == str_split(t) IN bits[Len(bits)]

\* C31: for a bare ticker whose last space-delimited token equals one of the ten yellow
\* keys when case is ignored, build writes the ticker with that token replaced by the
\* canonical yellow key and every other character unchanged; it writes every other
\* bare ticker unchanged.
C31_YellowKeyNormalised ==
  p_pc = "done" =>
    IF KeysMatching(LastToken(p_in)) # {}
    THEN \E k \in KeysMatching(LastToken(p_in)) : p_out = WithLastToken(p_in, k)
    ELSE p_out = p_in

\* C33: fix_case returns None for None and for the empty string; for a ticker of two or
\* more tokens whose last token equals a yellow key when case is ignored, it returns the
\* tokens before the last in upper case followed by the canonical yellow key, and
\* is_bb_ticker holds of what it returned; fix_case applied to what it returned
\* returns the same.
C33_FixCaseCanonical ==
  p_pc = "done" =>
    IF p_in \in {NoneC, <<>>} THEN p_out.fixed = NoneC
    ELSE LET bits == str_split(p_in)
             n == Len(bits)
         IN /\ p_out.again = p_out.fixed
            /\ n >= 2 /\ KeysMatching(bits[n]) # {} =>
                 /\ p_out.is_bb
                 /\ \E k \in KeysMatching(bits[n]) :
                      p_out.fixed = str_join([i \in 1..n |-> IF i < n THEN str_upper(bits[i]) ELSE k])

\* C32: request splits n >= 1 fields into ceil(n/500) consecutive chunks of at most 500
\* fields in caller order, each field in exactly one chunk and no chunk empty, and works
\* through the chunks one after another: the build of a chunk follows the merge of the
\* chunk before it, the transport is used for the chunk being sent only, and the
\* merged result holds the rows of the chunks in chunk order.
C32_ChunksInSequence ==
  c_pc \notin {"idle", "start"} /\ c_exc # "ValueError" =>
    LET n == c_args.nfields
        m == Len(c_args.sids)
        nchunks == (n + 499) \div 500
    IN /\ Len(c_chunks) <= nchunks
       /\ \A k \in 1..Len(c_chunks) :
            /\ c_chunks[k].lo = 500 * (k - 1)
            /\ c_chunks[k].lo < c_chunks[k].hi
            /\ c_chunks[k].hi - c_chunks[k].lo <= 500
            /\ c_chunks[k].hi <= n
            /\ k < Len(c_chunks) => c_chunks[k].hi = c_chunks[k + 1].lo
       /\ \A a \in 1..Len(c_log) :
            /\ a > 1 => c_log[a - 1][2] <= c_log[a][2]
            /\ c_log[a][1] = "build" =>
                 a = 1 \/ c_log[a - 1] = <<"extend", c_log[a][2] - 1>>
            /\ c_log[a][1] = "extend" => c_log[a - 1] = <<"parse", c_log[a][2]>>
            /\ c_log[a][1] \notin {"build", "parse", "extend"} =>
                 \E b \in 1..(a - 1) : c_log[b] = <<"build", c_log[a][2]>>
       /\ s_pc # "idle" => c_pc = "send" /\ c_log[Len(c_log)] = <<"build", c_part>>
       /\ c_pc = "returned" =>
            /\ Len(c_chunks) = nchunks
            /\ c_chunks[nchunks].hi = n
            /\ Len(c_result) = nchunks * m
            /\ \A i \in 1..Len(c_result) :
                 c_result[i] = [sid |-> ((i - 1) % m) + 1, part |-> (i - 1) \div m]

C32_Witness ==
  /\ c_pc = "returned" /\ c_args.nfields = 501 /\ Len(c_args.sids) = 1
  /\ c_chunks = <<[lo |-> 0, hi |-> 500], [lo |-> 500, hi |-> 501]>>
  /\ c_result = <<[sid |-> 1, part |-> 0], [sid |-> 1, part |-> 1]>>
  /\ Count(c_log, <<"put", 0>>) = 1 /\ Count(c_log, <<"put", 1>>) = 1

\* An identifier build has no line for: a tuple or list that is empty, or that ends in a
\* value that is not None and has three elements or an odd number of them
Malformed(iden) ==
  /\ iden.seq
  /\ \/ Len(iden.el) = 0
     \/ /\ iden.el[Len(iden.el)] # NoneS
        /\ Len(iden.el) = 3 \/ (Len(iden.el) > 3 /\ Len(iden.el) % 2 = 1)

\* The operations request has issued on the transport session
TransportCalls ==
  {a \in 1..Len(c_log) : c_log[a][1] \in {"delete", "put", "list", "get"}}

\* C39: when request is called for a new request with empty sids or empty fields, or
\* with a malformed identifier anywhere in sids, it raises, and no delete, upload,
\* listing or download has been issued on the transport session.
C39_InvalidInputNeverSent ==
  /\ c_pc \notin {"idle", "start"}
  /\ \/ c_args.sids = <<>> \/ c_args.nfields = 0
     \/ \E j \in 1..Len(c_args.sids) : Malformed(c_args.sids[j])
  => /\ s_pc = "idle" /\ ops = <<>> /\ TransportCalls = {}
     /\ c_pc \in {"build", "raised"}
     /\ c_pc = "raised" => c_exc = "ValueError"
     /\ c_part = 0

C39_Witness ==
  /\ c_pc = "raised" /\ c_exc = "ValueError" /\ c_args.nfields = 501
  /\ Len(c_args.sids) = 2 /\ ~Malformed(c_args.sids[1]) /\ Malformed(c_args.sids[2])
  /\ c_log = << <<"build", 0>> >> /\ ops = <<>>

\* C35: build leaves every field of the options object passed to it as it was on
\* entry, for a historical and for a non-historical request.
C35_BuildLeavesOptions ==
  b_pc # "idle" => b_options = b_entry

\* The key of a header line of the form KEY=VALUE, "" for a line that is no directive
DirectiveKeys ==
  {"FIRMNAME", "PROGRAMFLAG", "DELIMITER", "ADJUSTED", "DATEFORMAT", "DERIVED",
   "PRICING_SOURCE", "SECMASTER", "PROGRAMNAME", "HIST_FORMAT", "DATERANGE",
   "CLOSINGVALUES", "COMPRESS", "USERNUMBER", "SN", "WS"}
DirectiveValues ==
  {"None", "adhoc", "|", "yes", "yyyymmdd", "BVAL:NY4PM", "getdata", "gethistory",
   "horizontal", "20251215|20251215", "20251215|20251216", "6789", "123", "45"}
KeyOfLine(line) ==
  IF \E k \in DirectiveKeys, v \in DirectiveValues : line = k \o "=" \o v
  THEN CHOOSE k \in DirectiveKeys : \E v \in DirectiveValues : line = k \o "=" \o v
  ELSE ""

\* The header section: the lines of the file before its first blank line
HeaderSection ==
  LET blank == CHOOSE n \in 1..Len(b_file) : b_file[n] = "" /\ \A m \in 1..(n - 1) : b_file[m] # ""
  IN SubSeq(b_file, 1, blank - 1)

\* C40: for every combination of bval, date range and compressed, with no extra
\* headers from the caller, the header section build writes holds each directive key
\* at most once; it never holds two PROGRAMNAME directives.
C40_DirectiveKeysOnce ==
  b_pc = "done" /\ b_entry.headers = <<>> =>
    /\ \A i \in 2..Len(HeaderSection) : KeyOfLine(HeaderSection[i]) # ""
    /\ \A i, j \in 1..Len(HeaderSection) :
         i < j => KeyOfLine(HeaderSection[i]) # KeyOfLine(HeaderSection[j])

\* ------------------------------------------------------------------ further properties of Request.send

\* C36: send always ends, when every transport call and every sleep returns: it
\* returns after one download, or raises BbdlTimeoutError after wait_time*6 listings and
\* no download; it never makes more than wait_time*6 listings. (A send that ends
\* otherwise ends with the exception of the transport call that raised it.)
C36_SendTerminates ==
  /\ <>(s_pc \in {"done", "timeout", "failed"})
  /\ [](/\ Count(ops, "list") + Count(ops, "list_found") <= sendopt.wait_time * 6
        /\ s_pc = "done" => Count(ops, "get") = 1 /\ Count(ops, "list_found") = 1
        /\ s_pc = "timeout" =>
             Count(ops, "get") = 0 /\ Count(ops, "list") = sendopt.wait_time * 6
        /\ s_pc = "failed" => ops[Len(ops)] = "get")

C36_Witness ==
  /\ s_pc = "done" /\ sendopt.wait_time = 1
  /\ Count(ops, "list") = 5 /\ Count(ops, "list_found") = 1 /\ Count(ops, "get") = 1

\* C37: a response file that send downloads was put on the remote side after send
\* uploaded its request: the remote side did not hold a file of the response name when
\* the request was uploaded, also when the delete before the upload failed.
C37_NoStaleResponse ==
  s_pc \in {"unzip", "done"} => respname(sendopt) \notin at_put

\* C38: the name send asks the transport to download is one of the names of the
\* listing that made it download.
C38_DownloadsListedName ==
  [][s_pc = "list" /\ s_pc' = "get" => respname(sendopt) \in remote]_vars

\* ------------------------------------------------------------------ properties of the session options

\* The call passes none of bval, headers, begdate and enddate
PassesDefaults(a) ==
  ~a.bval /\ a.headers = <<>> /\ a.begdate = "<None>" /\ a.enddate = "<None>"

\* C34: the options of the session are not changed by request: after any calls,
\* self.options is what the session was made with, and a call that passes no bval,
\* headers, begdate or enddate has build called with options that are not BVAL, hold no
\* date and no extra headers, whatever the calls before it passed.
C34_SessionOptionsUnchanged ==
  p_pc \in {"call", "done"} =>
    /\ p_out.session = p_in.session
    /\ \A i \in 1..Len(p_out.built) :
         PassesDefaults(p_in.calls[i]) =>
           /\ ~p_out.built[i].bval
           /\ p_out.built[i].headers = <<>>
           /\ p_out.built[i].begdate = "<None>" /\ p_out.built[i].enddate = "<None>"

C34_Witness ==
  /\ p_pc = "done" /\ Len(p_in.calls) = 2
  /\ p_in.session.bval /\ p_in.session.begdate = "20251215"
  /\ p_in.calls[1] = [bval |-> TRUE, headers |-> <<"COMPRESS=yes">>,
                      begdate |-> "20251215", enddate |-> "<None>"]
  /\ PassesDefaults(p_in.calls[2])
  /\ p_out.built[1].enddate = "20251215"
  /\ ~p_out.built[2].bval /\ p_out.built[2].begdate = "<None>"

====
